---- MODULE Spec2Model ----
(***************************************************************************)
(* Restaurant search, classification and enrichment pipeline of the       *)
(* FYP mobile application: the gateway (Express) routes, the client-side  *)
(* search library, and the enrichment backend behind the gateway.         *)
(*                                                                         *)
(* Text is modelled as a sequence of one-character strings, so that       *)
(* lower-casing, trimming, joining and substring search are computed the  *)
(* way the code computes them.                                             *)
(***************************************************************************)
EXTENDS Integers, Sequences, FiniteSets, TLC

(***************************************************************************)
(* Text primitives (JavaScript String / Array methods used by the code).  *)
(***************************************************************************)
UpperToLower ==
     ("A" :> "a") @@ ("B" :> "b") @@ ("C" :> "c") @@ ("D" :> "d") @@ ("E" :> "e") @@ ("F" :> "f") @@ ("G" :> "g")
  @@ ("H" :> "h") @@ ("I" :> "i") @@ ("J" :> "j") @@ ("K" :> "k") @@ ("L" :> "l") @@ ("M" :> "m") @@ ("N" :> "n")
  @@ ("O" :> "o") @@ ("P" :> "p") @@ ("Q" :> "q") @@ ("R" :> "r") @@ ("S" :> "s") @@ ("T" :> "t") @@ ("U" :> "u")
  @@ ("V" :> "v") @@ ("W" :> "w") @@ ("X" :> "x") @@ ("Y" :> "y") @@ ("Z" :> "z")

\* String.prototype.toLowerCase on one character.
LowerChar(c) == IF c \in DOMAIN UpperToLower THEN UpperToLower[c] ELSE c

\* String.prototype.toLowerCase.
RECURSIVE toLowerCase(_)
toLowerCase(s) ==
  IF s = <<>> THEN <<>> ELSE <<LowerChar(Head(s))>> \o toLowerCase(Tail(s))

\* String.prototype.includes.
includes(text, keyword) ==
  \E i \in 0..(Len(text) - Len(keyword)) :
     \A j \in 1..Len(keyword) : text[i + j] = keyword[j]

\* Array.prototype.join(" ") over a list of texts.
RECURSIVE join(_)
join(parts) ==
  IF parts = <<>> THEN <<>>
  ELSE IF Len(parts) = 1 THEN parts[1]
  ELSE parts[1] \o <<" ">> \o join(Tail(parts))

\* Number.prototype.toString for the integers the model uses.
Digit == <<"0", "1", "2", "3", "4", "5", "6", "7", "8", "9">>

RECURSIVE NatToString(_)
NatToString(n) ==
  IF n < 10 THEN Digit[n + 1]
  ELSE NatToString(n \div 10) \o Digit[(n % 10) + 1]

IntToString(n) == IF n < 0 THEN "-" \o NatToString(0 - n) ELSE NatToString(n)

(***************************************************************************)
(* Fixed lookup tables.                                                    *)
(***************************************************************************)
\* Own keys of CUISINE_CATEGORIES, as the texts a request can carry.
CUISINE_CATEGORIES ==
     (<<"a", "l", "l">> :> "catering.restaurant")
  @@ (<<"c", "h", "i", "n", "e", "s", "e">> :> "catering.restaurant.chinese")
  @@ (<<"j", "a", "p", "a", "n", "e", "s", "e">> :> "catering.restaurant.japanese")
  @@ (<<"k", "o", "r", "e", "a", "n">> :> "catering.restaurant.korean")
  @@ (<<"t", "h", "a", "i">> :> "catering.restaurant.thai")
  @@ (<<"i", "n", "d", "i", "a", "n">> :> "catering.restaurant.indian")
  @@ (<<"i", "t", "a", "l", "i", "a", "n">> :> "catering.restaurant.italian")
  @@ (<<"f", "r", "e", "n", "c", "h">> :> "catering.restaurant.french")
  @@ (<<"a", "m", "e", "r", "i", "c", "a", "n">> :> "catering.restaurant.american")
  @@ (<<"m", "e", "x", "i", "c", "a", "n">> :> "catering.restaurant.mexican")
  @@ (<<"s", "e", "a", "f", "o", "o", "d">> :> "catering.restaurant.seafood")
  @@ (<<"s", "t", "e", "a", "k", "h", "o", "u", "s", "e">> :> "catering.restaurant.steak_house")
  @@ (<<"v", "e", "g", "e", "t", "a", "r", "i", "a", "n">> :> "catering.restaurant.vegetarian")
  @@ (<<"v", "e", "g", "a", "n">> :> "catering.restaurant.vegan")
  @@ (<<"f", "a", "s", "t", "_", "f", "o", "o", "d">> :> "catering.fast_food")

CUISINE_HEALTH_SCORES ==
     ("vegan" :> 85) @@ ("vegetarian" :> 80) @@ ("healthy" :> 85)
  @@ ("organic" :> 80) @@ ("japanese" :> 75) @@ ("mediterranean" :> 75)
  @@ ("vietnamese" :> 70) @@ ("thai" :> 65) @@ ("korean" :> 65)
  @@ ("indian" :> 60) @@ ("chinese" :> 60) @@ ("seafood" :> 70)
  @@ ("italian" :> 55) @@ ("french" :> 55) @@ ("mexican" :> 50)
  @@ ("american" :> 45) @@ ("steakhouse" :> 45) @@ ("fast_food" :> 25)
  @@ ("general" :> 50)

\* Object.entries(CUISINE_KEYWORDS) iterates in insertion order.
CUISINE_ORDER ==
  <<"chinese", "japanese", "korean", "thai", "vietnamese", "indian",
    "italian", "french", "american", "mexican", "mediterranean",
    "vegetarian", "vegan", "seafood", "steakhouse", "fast_food", "healthy">>

CUISINE_KEYWORDS ==
     ("chinese" :> <<<<"c", "h", "i", "n", "e", "s", "e">>,
        <<"c", "a", "n", "t", "o", "n", "e", "s", "e">>,
        <<"s", "i", "c", "h", "u", "a", "n">>,
        <<"d", "i", "m", " ", "s", "u", "m">>,
        <<"n", "o", "o", "d", "l", "e">>,
        <<"d", "u", "m", "p", "l", "i", "n", "g">>,
        <<"w", "o", "k">>>>)
  @@ ("japanese" :> <<<<"j", "a", "p", "a", "n", "e", "s", "e">>,
        <<"s", "u", "s", "h", "i">>,
        <<"r", "a", "m", "e", "n">>,
        <<"i", "z", "a", "k", "a", "y", "a">>,
        <<"t", "e", "m", "p", "u", "r", "a">>,
        <<"u", "d", "o", "n">>,
        <<"y", "a", "k", "i", "t", "o", "r", "i">>>>)
  @@ ("korean" :> <<<<"k", "o", "r", "e", "a", "n">>,
        <<"b", "b", "q">>,
        <<"k", "i", "m", "c", "h", "i">>,
        <<"b", "i", "b", "i", "m", "b", "a", "p">>,
        <<"k", "o", "r", "e", "a", "n", "_", "b", "b", "q">>>>)
  @@ ("thai" :> <<<<"t", "h", "a", "i">>,
        <<"p", "a", "d", " ", "t", "h", "a", "i">>,
        <<"c", "u", "r", "r", "y">>,
        <<"t", "o", "m", " ", "y", "u", "m">>>>)
  @@ ("vietnamese" :> <<<<"v", "i", "e", "t", "n", "a", "m", "e", "s", "e">>,
        <<"p", "h", "o">>,
        <<"b", "a", "n", "h", " ", "m", "i">>,
        <<"s", "p", "r", "i", "n", "g", " ", "r", "o", "l", "l">>>>)
  @@ ("indian" :> <<<<"i", "n", "d", "i", "a", "n">>,
        <<"c", "u", "r", "r", "y">>,
        <<"t", "a", "n", "d", "o", "o", "r", "i">>,
        <<"m", "a", "s", "a", "l", "a">>,
        <<"b", "i", "r", "y", "a", "n", "i">>,
        <<"n", "a", "a", "n">>>>)
  @@ ("italian" :> <<<<"i", "t", "a", "l", "i", "a", "n">>,
        <<"p", "i", "z", "z", "a">>,
        <<"p", "a", "s", "t", "a">>,
        <<"r", "i", "s", "o", "t", "t", "o">>,
        <<"t", "r", "a", "t", "t", "o", "r", "i", "a">>>>)
  @@ ("french" :> <<<<"f", "r", "e", "n", "c", "h">>,
        <<"b", "i", "s", "t", "r", "o">>,
        <<"b", "r", "a", "s", "s", "e", "r", "i", "e">>,
        <<"p", "a", "t", "i", "s", "s", "e", "r", "i", "e">>>>)
  @@ ("american" :> <<<<"a", "m", "e", "r", "i", "c", "a", "n">>,
        <<"b", "u", "r", "g", "e", "r">>,
        <<"b", "b", "q">>,
        <<"g", "r", "i", "l", "l">>,
        <<"d", "i", "n", "e", "r">>>>)
  @@ ("mexican" :> <<<<"m", "e", "x", "i", "c", "a", "n">>,
        <<"t", "a", "c", "o">>,
        <<"b", "u", "r", "r", "i", "t", "o">>,
        <<"t", "e", "x", "-", "m", "e", "x">>,
        <<"q", "u", "e", "s", "a", "d", "i", "l", "l", "a">>>>)
  @@ ("mediterranean" :> <<<<"m", "e", "d", "i", "t", "e", "r", "r", "a", "n", "e", "a", "n">>,
        <<"g", "r", "e", "e", "k">>,
        <<"t", "u", "r", "k", "i", "s", "h">>,
        <<"l", "e", "b", "a", "n", "e", "s", "e">>,
        <<"f", "a", "l", "a", "f", "e", "l">>,
        <<"h", "u", "m", "m", "u", "s">>>>)
  @@ ("vegetarian" :> <<<<"v", "e", "g", "e", "t", "a", "r", "i", "a", "n">>,
        <<"v", "e", "g", "g", "i", "e">>>>)
  @@ ("vegan" :> <<<<"v", "e", "g", "a", "n">>,
        <<"p", "l", "a", "n", "t", "-", "b", "a", "s", "e", "d">>,
        <<"p", "l", "a", "n", "t", " ", "b", "a", "s", "e", "d">>>>)
  @@ ("seafood" :> <<<<"s", "e", "a", "f", "o", "o", "d">>,
        <<"f", "i", "s", "h">>,
        <<"o", "y", "s", "t", "e", "r">>,
        <<"l", "o", "b", "s", "t", "e", "r">>,
        <<"c", "r", "a", "b">>>>)
  @@ ("steakhouse" :> <<<<"s", "t", "e", "a", "k", "h", "o", "u", "s", "e">>,
        <<"s", "t", "e", "a", "k">>,
        <<"c", "h", "o", "p", "h", "o", "u", "s", "e">>>>)
  @@ ("fast_food" :> <<<<"f", "a", "s", "t", " ", "f", "o", "o", "d">>,
        <<"q", "u", "i", "c", "k", " ", "s", "e", "r", "v", "i", "c", "e">>,
        <<"t", "a", "k", "e", "a", "w", "a", "y">>,
        <<"t", "a", "k", "e", "-", "a", "w", "a", "y">>>>)
  @@ ("healthy" :> <<<<"h", "e", "a", "l", "t", "h", "y">>,
        <<"s", "a", "l", "a", "d">>,
        <<"b", "o", "w", "l">>,
        <<"o", "r", "g", "a", "n", "i", "c">>,
        <<"f", "r", "e", "s", "h">>,
        <<"l", "i", "g", "h", "t">>>>)

\* The healthy-signal words of calculateHealthScore.
HEALTHY_SIGNALS ==
  { <<"h", "e", "a", "l", "t", "h", "y">>,
    <<"o", "r", "g", "a", "n", "i", "c">>,
    <<"v", "e", "g", "a", "n">>,
    <<"v", "e", "g", "e", "t", "a", "r", "i", "a", "n">> }

HEALTHY_SIGNAL_SCORE == 80

DEFAULT_HEALTH_SCORE == 50

(***************************************************************************)
(* Cuisine classifier.                                                     *)
(***************************************************************************)
\* Variant: only the first keyword of a label is tried.
KeywordMatchFirstOnly(cuisine, searchText) ==
  includes(searchText, CUISINE_KEYWORDS[cuisine][1])

\* keywords.some(keyword => searchText.includes(keyword))
KeywordMatch(cuisine, searchText) ==
  \E k \in 1..Len(CUISINE_KEYWORDS[cuisine]) :
     includes(searchText, CUISINE_KEYWORDS[cuisine][k])

RECURSIVE DetectFrom(_, _)
DetectFrom(i, searchText) ==
  IF i > Len(CUISINE_ORDER) THEN <<>>
  ELSE (IF KeywordMatch(CUISINE_ORDER[i], searchText)
          THEN <<CUISINE_ORDER[i]>> ELSE <<>>)
       \o DetectFrom(i + 1, searchText)

detectCuisines(categories, name) ==
  LET searchText == toLowerCase(join(Append(categories, name)))
      detected   == DetectFrom(1, searchText)
  IN  IF Len(detected) > 0 THEN detected ELSE <<"general">>

RECURSIVE MaxOf(_)
MaxOf(scores) ==
  IF Len(scores) = 1 THEN scores[1]
  ELSE LET m == MaxOf(Tail(scores))
       IN  IF scores[1] >= m THEN scores[1] ELSE m

\* The scores pushed for the cuisines whose table entry is truthy.
RECURSIVE CuisineScores(_)
CuisineScores(cuisines) ==
  IF cuisines = <<>> THEN <<>>
  ELSE (IF Head(cuisines) \in DOMAIN CUISINE_HEALTH_SCORES
           /\ CUISINE_HEALTH_SCORES[Head(cuisines)] # 0
          THEN <<CUISINE_HEALTH_SCORES[Head(cuisines)]>> ELSE <<>>)
       \o CuisineScores(Tail(cuisines))

RECURSIVE SumOf(_)
SumOf(scores) == IF scores = <<>> THEN 0 ELSE Head(scores) + SumOf(Tail(scores))

\* Variant: the candidate scores are added up instead of maximised.
calculateHealthScoreSum(cuisines, categories) ==
  LET categoriesText == toLowerCase(join(categories))
      scores == CuisineScores(cuisines)
                \o (IF \E w \in HEALTHY_SIGNALS : includes(categoriesText, w)
                      THEN <<HEALTHY_SIGNAL_SCORE>> ELSE <<>>)
  IN  IF Len(scores) > 0 THEN SumOf(scores) ELSE DEFAULT_HEALTH_SCORE

\* Variant: the first candidate score is returned instead of the greatest.
calculateHealthScoreFirst(cuisines, categories) ==
  LET categoriesText == toLowerCase(join(categories))
      scores == CuisineScores(cuisines)
                \o (IF \E w \in HEALTHY_SIGNALS : includes(categoriesText, w)
                      THEN <<HEALTHY_SIGNAL_SCORE>> ELSE <<>>)
  IN  IF Len(scores) > 0 THEN scores[1] ELSE DEFAULT_HEALTH_SCORE

calculateHealthScore(cuisines, categories) ==
  LET categoriesText == toLowerCase(join(categories))
      scores == CuisineScores(cuisines)
                \o (IF \E w \in HEALTHY_SIGNALS : includes(categoriesText, w)
                      THEN <<HEALTHY_SIGNAL_SCORE>> ELSE <<>>)
  IN  IF Len(scores) > 0 THEN MaxOf(scores) ELSE DEFAULT_HEALTH_SCORE

(***************************************************************************)
(* Provider features and the restaurant record built from them.           *)
(* An optional number is <<>> (undefined) or <<n>>; an undefined or empty  *)
(* text is <<>>; an undefined id string is "".                             *)
(***************************************************************************)
UNKNOWN_RESTAURANT == <<"U", "n", "k", "n", "o", "w", "n", " ", "R", "e", "s", "t", "a", "u", "r", "a", "n", "t">>

\* value || fallback for an optional number: undefined and 0 are falsy.
OrNumber(opt, fallback) ==
  IF opt # <<>> /\ opt[1] # 0 THEN opt[1] ELSE fallback

\* value || fallback for a text: undefined and "" are falsy.
OrText(t, fallback) == IF t # <<>> THEN t ELSE fallback

\* props.place_id || props.osm_id?.toString() || `${coords[0]}-${coords[1]}`
RestaurantId(feature) ==
  IF feature.place_id # "" THEN feature.place_id
  ELSE IF feature.osm_id # <<>> THEN IntToString(feature.osm_id[1])
  ELSE IntToString(feature.lon) \o "-" \o IntToString(feature.lat)

processRestaurant(feature) ==
  LET categories  == feature.categories
      name        == OrText(feature.name, UNKNOWN_RESTAURANT)
      cuisines    == detectCuisines(categories, name)
      healthScore == calculateHealthScore(cuisines, categories)
  IN  [ id                   |-> RestaurantId(feature),
        name                 |-> name,
        latitude             |-> feature.lat,
        longitude            |-> feature.lon,
        distance_meters      |-> OrNumber(feature.distance, 0),
        categories           |-> categories,
        cuisine_types        |-> cuisines,
        cuisine_health_score |-> healthScore ]

\* Variant: a feature without a distance is ordered after all others.
SortKeyMissingLast(feature) ==
  IF feature.distance = <<>> THEN 1000000 ELSE feature.distance[1]

\* The comparator key of features.sort: (a.properties.distance || 0).
SortKey(feature) == OrNumber(feature.distance, 0)

\* Array.prototype.sort with the comparator a - b is a stable ascending
\* sort: element j precedes element i when its key is smaller, or equal
\* with j earlier in the payload.
Precedes(features, j, i) ==
  \/ SortKey(features[j]) - SortKey(features[i]) < 0
  \/ SortKey(features[j]) - SortKey(features[i]) = 0 /\ j < i

Rank(features, i) ==
  Cardinality({j \in 1..Len(features) : Precedes(features, j, i)}) + 1

sortByDistance(features) ==
  [p \in 1..Len(features) |->
     features[CHOOSE i \in 1..Len(features) : Rank(features, i) = p]]

(***************************************************************************)
(* The provider features the payloads are drawn from.                      *)
(***************************************************************************)
MaxFeatures == 3

FeaturePool ==
  { [place_id |-> "p1", osm_id |-> <<>>, lon |-> 114, lat |-> 22,
     distance |-> <<500>>,
     categories |-> << <<"c", "a", "t", "e", "r", "i", "n", "g", ".", "r", "e", "s", "t", "a", "u", "r", "a", "n", "t", ".", "c", "h", "i", "n", "e", "s", "e">> >>,
     name |-> <<"W", "o", "k">>],
    [place_id |-> "", osm_id |-> <<7>>, lon |-> 115, lat |-> 22,
     distance |-> <<150>>,
     categories |-> << <<"c", "a", "t", "e", "r", "i", "n", "g", ".", "r", "e", "s", "t", "a", "u", "r", "a", "n", "t">> >>,
     name |-> <<"S", "u", "s", "h", "i", " ", "B", "a", "r">>],
    [place_id |-> "", osm_id |-> <<>>, lon |-> 114, lat |-> 23,
     distance |-> <<>>,
     categories |-> <<>>,
     name |-> <<>>],
    [place_id |-> "p2", osm_id |-> <<0>>, lon |-> 114, lat |-> 22,
     distance |-> <<150>>,
     categories |-> << <<"V", "e", "g", "a", "n">>, <<"c", "a", "t", "e", "r", "i", "n", "g", ".", "r", "e", "s", "t", "a", "u", "r", "a", "n", "t", ".", "h", "e", "a", "l", "t", "h", "y">> >>,
     name |-> <<"G", "r", "e", "e", "n", " ", "B", "o", "w", "l">>],
    [place_id |-> "", osm_id |-> <<>>, lon |-> 114, lat |-> 23,
     distance |-> <<0>>,
     categories |-> << <<"c", "a", "t", "e", "r", "i", "n", "g", ".", "f", "a", "s", "t", "_", "f", "o", "o", "d">> >>,
     name |-> <<"K", "F", "C">>] }

RECURSIVE SeqsUpTo(_, _)
SeqsUpTo(S, n) ==
  IF n = 0 THEN {<<>>}
  ELSE LET shorter == SeqsUpTo(S, n - 1)
       IN  shorter \cup {Append(q, x) : q \in shorter, x \in S}

\* A payload longer than the limit the call carried.
Cycle(pattern, n) == [i \in 1..n |-> pattern[((i - 1) % Len(pattern)) + 1]]

OverLimitPattern ==
  LET f == CHOOSE g \in FeaturePool : g.place_id = "p2"
      h == CHOOSE g \in FeaturePool : g.osm_id = <<7>>
  IN  <<f, h>>

FeatureLists == SeqsUpTo(FeaturePool, MaxFeatures)

\* processRestaurant tabulated once over the pool the payloads draw from.
ProcessedPool == [f \in FeaturePool |-> processRestaurant(f)]

\* features.map(processRestaurant)
mapProcess(features) ==
  [i \in 1..Len(features) |->
     IF features[i] \in FeaturePool THEN ProcessedPool[features[i]]
     ELSE processRestaurant(features[i])]



(***************************************************************************)
(* Outbound HTTP calls and what comes back.                                *)
(*                                                                         *)
(* A call records its target, its parameters and the timeout the code      *)
(* passed to fetch (<<>> when the code passes none).  An outcome is what   *)
(* the awaiting code observes: kind "ok" (HTTP 2xx, parsed payload),       *)
(* "status" (non-2xx), "network" (fetch rejects), "badjson"                *)
(* (response.json() rejects), "malformed" (a payload whose shape makes a   *)
(* property access throw).                                                  *)
(***************************************************************************)
PROVIDER_CAP == 50

DEFAULT_RADIUS == 2000

DEFAULT_LIMIT == 30

NoTimeout == <<>>

MinOf(a, b) == IF a <= b THEN a ELSE b

Outcome(kind, status, message, features, data) ==
  [kind |-> kind, status |-> status, message |-> message,
   features |-> features, data |-> data]

\* The message of the exception the awaiting code ends up catching.
GeoapifyErrorMessage(status) == "Geoapify API error: " \o IntToString(status)

ThrownMessage(outcome) ==
  IF outcome.kind = "status" THEN GeoapifyErrorMessage(outcome.status)
  ELSE outcome.message

\* error.message || fallback
OrMessage(message, fallback) == IF message # "" THEN message ELSE fallback

\* Variant: the requested limit is forwarded unclamped.
ApiLimitUnclamped(limit) == limit

\* const apiLimit = Math.min(limit, 50), gateway copy.
ApiLimit(limit) == MinOf(limit, PROVIDER_CAP)

\* const apiLimit = Math.min(limit, 50), client copy.
ClientApiLimit(limit) == MinOf(limit, PROVIDER_CAP)

PlacesCall(category, latitude, longitude, radius, apiLimit) ==
  [target |-> "geoapify:/v2/places", method |-> "GET",
   categories |-> category, latitude |-> latitude, longitude |-> longitude,
   radius |-> radius, limit |-> apiLimit, timeout |-> NoTimeout]

\* Members the table, an object literal, inherits from Object.prototype: a
\* lookup by such a name yields the member, a function, and the request
\* carries its string form.  Other inherited members behave alike.
OBJECT_PROTOTYPE ==
     (<<"c", "o", "n", "s", "t", "r", "u", "c", "t", "o", "r">>
        :> "function Object() { [native code] }")
  @@ (<<"t", "o", "S", "t", "r", "i", "n", "g">>
        :> "function toString() { [native code] }")

\* CUISINE_CATEGORIES[key] || CUISINE_CATEGORIES.all
CategoryFor(key) ==
  IF key \in DOMAIN CUISINE_CATEGORIES THEN CUISINE_CATEGORIES[key]
  ELSE IF key \in DOMAIN OBJECT_PROTOTYPE THEN OBJECT_PROTOTYPE[key]
  ELSE CUISINE_CATEGORIES[<<"a", "l", "l">>]

Respond(status, body) == [status |-> status, body |-> body]

\* What a handler segment yields: a response (with the message of the
\* exception that led to it, if one was raised), or an outbound call to
\* await.
Replied(resp) == [resp |-> <<resp>>, calls |-> <<>>, thrown |-> <<>>]

Threw(message, resp) ==
  [resp |-> <<resp>>, calls |-> <<>>, thrown |-> <<message>>]

Awaiting(call) == [resp |-> <<>>, calls |-> <<call>>, thrown |-> <<>>]

(***************************************************************************)
(* Gateway: POST /api/restaurants/search.                                  *)
(* A body carries latitude and longitude as optional numbers (<<>> when    *)
(* absent or not a number), optional radius and limit, and cuisine_filter  *)
(* as a text (filter_is_string FALSE when it is some other JSON value).    *)
(***************************************************************************)
SearchBodyDefaults(body) ==
  [radius |-> IF body.radius = <<>> THEN DEFAULT_RADIUS ELSE body.radius[1],
   limit  |-> IF body.limit = <<>> THEN DEFAULT_LIMIT ELSE body.limit[1],
   cuisine_filter |-> OrText(body.cuisine_filter, <<"a", "l", "l">>)]

\* The handler up to its first await (validation and the outbound GET).
GatewaySearchStart(body) ==
  LET d == SearchBodyDefaults(body) IN
  IF body.latitude = <<>> \/ body.longitude = <<>>
    THEN Replied(Respond(400, [success |-> FALSE,
           error_message |-> "latitude and longitude are required as numbers"]))
  ELSE IF body.latitude[1] < -90 \/ body.latitude[1] > 90
    THEN Replied(Respond(400, [success |-> FALSE,
           error_message |-> "Invalid latitude: must be between -90 and 90"]))
  ELSE IF body.longitude[1] < -180 \/ body.longitude[1] > 180
    THEN Replied(Respond(400, [success |-> FALSE,
           error_message |-> "Invalid longitude: must be between -180 and 180"]))
  ELSE IF ~body.filter_is_string
    \* cuisine_filter.toLowerCase is not a function: caught by the handler
    THEN Threw("cuisine_filter.toLowerCase is not a function",
               Respond(500, [success |-> FALSE,
                 error_message |-> "cuisine_filter.toLowerCase is not a function"]))
  ELSE Awaiting(PlacesCall(CategoryFor(toLowerCase(d.cuisine_filter)),
                           body.latitude[1], body.longitude[1], d.radius,
                           ApiLimit(d.limit)))

\* Variant: the status of the provider's answer is not examined, a
\* non-success answer is read like a success without features.
GatewaySearchFinishIgnoringStatus(body, outcome) ==
  LET d == SearchBodyDefaults(body) IN
  IF outcome.kind \in {"ok", "status"}
    THEN LET restaurants == mapProcess(sortByDistance(outcome.features))
         IN  Replied(Respond(200, [success |-> TRUE,
               user_location |-> [latitude |-> body.latitude[1],
                                  longitude |-> body.longitude[1]],
               search_radius_meters |-> d.radius,
               total_results |-> Len(restaurants),
               restaurants |-> restaurants]))
    ELSE Threw(ThrownMessage(outcome),
               Respond(500, [success |-> FALSE,
                 error_message |-> OrMessage(ThrownMessage(outcome),
                                             "Failed to search restaurants")]))

\* The handler from the provider's answer to its response.
GatewaySearchFinish(body, outcome) ==
  LET d == SearchBodyDefaults(body) IN
  IF outcome.kind = "ok"
    THEN LET restaurants == mapProcess(sortByDistance(outcome.features))
         IN  Replied(Respond(200, [success |-> TRUE,
               user_location |-> [latitude |-> body.latitude[1],
                                  longitude |-> body.longitude[1]],
               search_radius_meters |-> d.radius,
               total_results |-> Len(restaurants),
               restaurants |-> restaurants]))
    ELSE Threw(ThrownMessage(outcome),
               Respond(500, [success |-> FALSE,
                 error_message |-> OrMessage(ThrownMessage(outcome),
                                             "Failed to search restaurants")]))

(***************************************************************************)
(* Path segments and names.                                                *)
(* A path segment arrives percent-encoded; the escapes the inputs use are  *)
(* %20 (space) and %25 (percent sign).  A decoder yields <<text>>, or <<>>   *)
(* when it throws URIError on a malformed escape.                          *)
(***************************************************************************)
PercentEscapes == (<<"2", "0">> :> " ") @@ (<<"2", "5">> :> "%")

URI_MALFORMED == "URI malformed"

RECURSIVE decodeURIComponent(_)
decodeURIComponent(s) ==
  IF s = <<>> THEN << <<>> >>
  ELSE IF s[1] # "%"
    THEN LET rest == decodeURIComponent(Tail(s))
         IN  IF rest = <<>> THEN <<>> ELSE << <<s[1]>> \o rest[1] >>
  ELSE IF Len(s) >= 3 /\ <<s[2], s[3]>> \in DOMAIN PercentEscapes
    THEN LET rest == decodeURIComponent(SubSeq(s, 4, Len(s)))
         IN  IF rest = <<>> THEN <<>>
             ELSE << <<PercentEscapes[<<s[2], s[3]>>]>> \o rest[1] >>
  ELSE <<>>

EncodeChar(c) ==
  IF c = " " THEN <<"%", "2", "0">>
  ELSE IF c = "%" THEN <<"%", "2", "5">>
  ELSE <<c>>

RECURSIVE encodeURIComponent(_)
encodeURIComponent(s) ==
  IF s = <<>> THEN <<>>
  ELSE EncodeChar(Head(s)) \o encodeURIComponent(Tail(s))

RECURSIVE trimStart(_)
trimStart(s) ==
  IF s # <<>> /\ s[1] = " " THEN trimStart(Tail(s)) ELSE s

RECURSIVE trimEnd(_)
trimEnd(s) ==
  IF s # <<>> /\ s[Len(s)] = " " THEN trimEnd(SubSeq(s, 1, Len(s) - 1)) ELSE s

trim(s) == trimEnd(trimStart(s))

(***************************************************************************)
(* Gateway middleware and the routes without an upstream.                  *)
(***************************************************************************)
JSON_SYNTAX_ERROR == "Unexpected end of JSON input"

PARAM_DECODE_ERROR == "Failed to decode param"

\* No error-handling middleware is registered: an error passed to next()
\* reaches the framework's default handler, which answers with the error's
\* status and an HTML page.
DefaultErrorResponse(status) == Respond(status, [html |-> "error page"])

\* app.get("/health")
GatewayHealth == Replied(Respond(200, [status |-> "ok"]))

\* app.post("/api/analyze", upload.single("file"))
MockPayload ==
  [calories |-> 452, confidence |-> "high", notes |-> "Sample response"]

GatewayAnalyze(req) ==
  IF ~req.has_file
    THEN Replied(Respond(400,
           [message |-> "Image file is required under the file field."]))
    ELSE Replied(Respond(200, MockPayload))

\* app.use((_req, res) => res.status(404)...)
GatewayNotFound == Replied(Respond(404, [message |-> "Route not found"]))

(***************************************************************************)
(* Gateway: GET /api/geocode/reverse.  lat and lon are query strings, ""   *)
(* when absent.                                                             *)
(***************************************************************************)
GeocodeCall(lat, lon) ==
  [target |-> "geoapify:/v1/geocode/reverse", method |-> "GET",
   lat |-> lat, lon |-> lon, timeout |-> NoTimeout]

GatewayGeocodeStart(req) ==
  IF req.lat = "" \/ req.lon = ""
    THEN Replied(Respond(400, [success |-> FALSE,
           error_message |-> "lat and lon query parameters are required"]))
    ELSE Awaiting(GeocodeCall(req.lat, req.lon))

GeocodeFailed(message) ==
  Threw(message,
        Respond(500, [success |-> FALSE,
          error_message |-> OrMessage(message, "Failed to reverse geocode")]))

\* A feature carries properties as <<p>>, or <<>> when the payload has none.
GatewayGeocodeFinish(req, outcome) ==
  IF outcome.kind # "ok" THEN GeocodeFailed(ThrownMessage(outcome))
  ELSE IF outcome.features = <<>>
    THEN Replied(Respond(200, [success |-> TRUE, address |-> <<>>]))
  ELSE IF outcome.features[1].properties = <<>>
    THEN GeocodeFailed(
           "Cannot read properties of undefined (reading 'formatted')")
  ELSE LET p == outcome.features[1].properties[1]
       IN  Replied(Respond(200, [success |-> TRUE,
             address |-> <<p.formatted>>,
             details |-> [city |-> p.city, district |-> p.district,
                          country |-> p.country]]))

(***************************************************************************)
(* Gateway: GET /api/openrice/search/:name.                                *)
(***************************************************************************)
EnrichCall(restaurantName) ==
  [target |-> "fastapi:/api/openrice/search", method |-> "GET",
   segment |-> encodeURIComponent(restaurantName), timeout |-> NoTimeout]

\* The router matches one non-empty segment and decodes it into
\* req.params.name; the handler decodes that once more.
GatewayEnrichStart(req) ==
  IF req.segment = <<>> THEN GatewayNotFound
  ELSE IF decodeURIComponent(req.segment) = <<>>
    THEN Threw(PARAM_DECODE_ERROR, DefaultErrorResponse(400))
  ELSE LET param == decodeURIComponent(req.segment)[1]
           restaurantName == decodeURIComponent(param)
       IN  IF restaurantName = <<>>
             THEN Threw(URI_MALFORMED,
                        Respond(500, [success |-> FALSE,
                          error |-> OrMessage(URI_MALFORMED,
                                              "Internal server error")]))
           ELSE IF Len(trim(restaurantName[1])) = 0
             THEN Replied(Respond(400, [success |-> FALSE,
                    error |-> "Restaurant name is required"]))
           ELSE Awaiting(EnrichCall(restaurantName[1]))

\* fetchFromFastAPI after its fetch: the data, or null (<<>>).  The outcome
\* of kind "ok" carries the parsed payload as data[1].
fetchFromFastAPI(outcome) ==
  IF outcome.kind # "ok" THEN <<>>
  ELSE LET result == outcome.data[1]
       IN  IF ~result.success \/ result.data = <<>> THEN <<>>
           ELSE result.data

\* The exception fetchFromFastAPI caught and logged, if any.
FetchFromFastAPICaught(outcome) ==
  IF outcome.kind \in {"network", "badjson"} THEN <<outcome.message>>
  ELSE <<>>

GatewayEnrichFinish(req, outcome) ==
  LET data == fetchFromFastAPI(outcome) IN
  IF data = <<>>
    THEN [resp |-> <<Respond(500, [success |-> FALSE,
            error |-> "Failed to fetch OpenRice data. Make sure FastAPI is running."])>>,
          calls |-> <<>>,
          thrown |-> FetchFromFastAPICaught(outcome)]
    ELSE Replied(Respond(200, [success |-> TRUE, data |-> data[1]]))

(***************************************************************************)
(* Gateway: POST /api/openrice/batch.  The body carries restaurants as     *)
(* <<list>>, or <<>> when the field is absent or not an array.             *)
(***************************************************************************)
BatchCall(restaurants) ==
  [target |-> "fastapi:/api/openrice/batch", method |-> "POST",
   restaurants |-> restaurants, get_details |-> TRUE, timeout |-> NoTimeout]

GatewayBatchStart(req) ==
  IF req.restaurants = <<>> \/ Len(req.restaurants[1]) = 0
    THEN Replied(Respond(400, [success |-> FALSE,
           error |-> "restaurants array is required"]))
    ELSE Awaiting(BatchCall(req.restaurants[1]))

GatewayBatchFinish(req, outcome) ==
  IF outcome.kind = "status"
    THEN Replied(Respond(500, [success |-> FALSE,
           error |-> "FastAPI batch request failed"]))
  ELSE IF outcome.kind = "ok"
    THEN Replied(Respond(200, outcome.data[1]))
  ELSE Threw(outcome.message,
             Respond(500, [success |-> FALSE,
               error |-> OrMessage(outcome.message, "Internal server error")]))

(***************************************************************************)
(* Client library: searchRestaurants(latitude, longitude, radius, limit,   *)
(* cuisineFilter).                                                          *)
(***************************************************************************)
ClientSearchStart(args) ==
  Awaiting(PlacesCall(CategoryFor(args.cuisine_filter),
                      args.latitude, args.longitude, args.radius,
                      ClientApiLimit(args.limit)))

\* Variant: a failure inside the search is rethrown to the caller instead
\* of being returned as a result.
ClientSearchFinishRethrowing(args, outcome) ==
  IF outcome.kind = "ok"
    THEN LET restaurants == mapProcess(sortByDistance(outcome.features))
         IN  [success |-> TRUE,
              user_location |-> [latitude |-> args.latitude,
                                 longitude |-> args.longitude],
              search_radius_meters |-> args.radius,
              total_results |-> Len(restaurants),
              restaurants |-> restaurants]
    ELSE [thrown |-> OrMessage(ThrownMessage(outcome),
                               "Failed to search restaurants")]

ClientSearchFinish(args, outcome) ==
  IF outcome.kind = "ok"
    THEN LET restaurants == mapProcess(sortByDistance(outcome.features))
         IN  [success |-> TRUE,
              user_location |-> [latitude |-> args.latitude,
                                 longitude |-> args.longitude],
              search_radius_meters |-> args.radius,
              total_results |-> Len(restaurants),
              restaurants |-> restaurants]
    ELSE [success |-> FALSE,
          user_location |-> [latitude |-> args.latitude,
                             longitude |-> args.longitude],
          search_radius_meters |-> args.radius,
          total_results |-> 0,
          restaurants |-> <<>>,
          error_message |-> OrMessage(ThrownMessage(outcome),
                                      "Failed to search restaurants")]

(***************************************************************************)
(* State.                                                                   *)
(*   gw[s]  one gateway connection per slot: the request being handled,    *)
(*          the outbound calls its handler has issued, whether the         *)
(*          upstream has gone silent, and the response sent                *)
(*   cl     the client library's searchRestaurants call                    *)
(*   cls    the classifier applied to one (categories, name) input         *)
(*   be     the scraping backend behind the enrichment routes              *)
(*   page   the Restaurants page: its React state, the searches and image  *)
(*          lookups it has in flight                                       *)
(*   cam    the Camera page: its React state and refs, the media streams   *)
(*          it has acquired                                                *)
(*   nb     the NotificationBridge component and the platform's listener   *)
(*          registry                                                       *)
(*   meals  the meal store: local storage, its listeners                   *)
(* An action below constrains the variable it owns; each specification     *)
(* states what its steps leave unchanged.                                  *)
(***************************************************************************)
VARIABLES gw, cl, cls, be, page, cam, nb, meals

vars == <<gw, cl, cls, be, page, cam, nb, meals>>

\* The front end: the two pages, the notification bridge and the meal store.
front == <<page, cam, nb, meals>>

\* What an action on one variable leaves unchanged.
exceptGw == <<cl, cls, be, front>>

exceptCl == <<gw, cls, be, front>>

exceptCls == <<gw, cl, be, front>>

exceptPage == <<gw, cl, cls, be, cam, nb, meals>>

exceptMeals == <<gw, cl, cls, be, page, cam, nb>>

exceptCam == <<gw, cl, cls, be, page, nb, meals>>

exceptNb == <<gw, cl, cls, be, page, cam, meals>>

MaxRequests == 2

GwSlots == 1..MaxRequests

NoRequest == [route |-> "none"]

IdleConn ==
  [pc |-> "idle", req |-> NoRequest, calls |-> <<>>, outcome |-> <<>>,
   resp |-> <<>>, thrown |-> <<>>, hung |-> FALSE]

IdleClient ==
  [pc |-> "idle", args |-> NoRequest, calls |-> <<>>, outcome |-> <<>>,
   result |-> <<>>, hung |-> FALSE]

\* Route dispatch: the handler segment run when the request arrives.
\* express.json() runs first; a body it cannot parse never reaches a route.
GatewayStart(req) ==
  IF ~req.json_ok THEN Threw(JSON_SYNTAX_ERROR, DefaultErrorResponse(400))
  ELSE CASE req.route = "health" -> GatewayHealth
         [] req.route = "openrice_search" -> GatewayEnrichStart(req)
         [] req.route = "openrice_batch" -> GatewayBatchStart(req)
         [] req.route = "search" -> GatewaySearchStart(req.body)
         [] req.route = "geocode" -> GatewayGeocodeStart(req)
         [] req.route = "analyze" -> GatewayAnalyze(req)
         [] OTHER -> GatewayNotFound

\* Route dispatch: the handler segment run when the awaited call settles.
GatewayFinish(req, outcome) ==
  CASE req.route = "search" -> GatewaySearchFinish(req.body, outcome)
    [] req.route = "geocode" -> GatewayGeocodeFinish(req, outcome)
    [] req.route = "openrice_search" -> GatewayEnrichFinish(req, outcome)
    [] req.route = "openrice_batch" -> GatewayBatchFinish(req, outcome)

GwReceive(s, req) ==
  /\ gw[s].pc = "idle"
  /\ LET r == GatewayStart(req)
     IN  gw' = [gw EXCEPT ![s] =
                  [pc    |-> IF r.resp # <<>> THEN "done" ELSE "awaiting",
                   req   |-> req,
                   calls |-> r.calls,
                   outcome |-> <<>>,
                   resp  |-> r.resp,
                   thrown |-> r.thrown,
                   hung  |-> FALSE]]
  /\ UNCHANGED exceptGw

\* The connection table once slot s's awaited call has settled.
GwSettled(s, outcome) ==
  LET r == GatewayFinish(gw[s].req, outcome)
  IN  [gw EXCEPT ![s].pc = "done",
                 ![s].outcome = <<outcome>>,
                 ![s].resp = r.resp,
                 ![s].thrown = r.thrown]

GwComplete(s, outcome) ==
  /\ gw[s].pc = "awaiting"
  /\ ~gw[s].hung
  /\ gw' = GwSettled(s, outcome)
  /\ UNCHANGED exceptGw

\* The upstream accepts the call and never answers.
GwUpstreamHangs(s) ==
  /\ gw[s].pc = "awaiting"
  /\ ~gw[s].hung
  /\ gw' = [gw EXCEPT ![s].hung = TRUE]
  /\ UNCHANGED exceptGw

\* The response has been delivered; the slot serves the next request.
GwClose(s) ==
  /\ gw[s].pc = "done"
  /\ gw' = [gw EXCEPT ![s] = IdleConn]
  /\ UNCHANGED exceptGw

ClientSearchCall(args) ==
  /\ cl.pc = "idle"
  /\ cl' = [pc |-> "awaiting", args |-> args,
            calls |-> ClientSearchStart(args).calls, outcome |-> <<>>,
            result |-> <<>>, hung |-> FALSE]
  /\ UNCHANGED exceptCl

ClientSearchSettle(outcome) ==
  /\ cl.pc = "awaiting"
  /\ ~cl.hung
  /\ cl' = [cl EXCEPT !.pc = "done",
                      !.outcome = <<outcome>>,
                      !.result = <<ClientSearchFinish(cl.args, outcome)>>]
  /\ UNCHANGED exceptCl

ClientUpstreamHangs ==
  /\ cl.pc = "awaiting"
  /\ ~cl.hung
  /\ cl' = [cl EXCEPT !.hung = TRUE]
  /\ UNCHANGED exceptCl

ClientReturn ==
  /\ cl.pc = "done"
  /\ cl' = IdleClient
  /\ UNCHANGED exceptCl

(***************************************************************************)
(* Search inputs: request bodies, client arguments, provider payloads.     *)
(***************************************************************************)
NetworkMessages == {"fetch failed", ""}

PayloadMessages ==
  {"Unexpected token < in JSON at position 0",
   "Cannot read properties of undefined (reading 'distance')"}

ProviderOutcomes(call) ==
       {Outcome("ok", 200, "", fs, <<>>) : fs \in FeatureLists}
  \cup {Outcome("ok", 200, "", Cycle(OverLimitPattern, n), <<>>) :
          n \in {call.limit, call.limit + 1}}
  \cup {Outcome("status", st, "", <<>>, <<>>) : st \in {401, 500}}
  \cup {Outcome("network", 0, m, <<>>, <<>>) : m \in NetworkMessages}
  \cup {Outcome("badjson", 200, "Unexpected token < in JSON at position 0",
                <<>>, <<>>),
        Outcome("malformed", 200,
                "Cannot read properties of undefined (reading 'distance')",
                <<>>, <<>>)}

\* Request bodies: a sweep over the coordinates, then over the limit and
\* the cuisine filter at valid coordinates.
SearchBody(lat, lon, radius, limit, filter, isString) ==
  [latitude |-> lat, longitude |-> lon, radius |-> radius, limit |-> limit,
   cuisine_filter |-> filter, filter_is_string |-> isString]

SearchBodies ==
       {SearchBody(lat, lon, <<>>, <<>>, <<>>, TRUE) :
          lat \in {<<>>, <<-91>>, <<22>>, <<91>>},
          lon \in {<<>>, <<-181>>, <<114>>, <<181>>}}
  \cup {SearchBody(<<22>>, <<114>>, <<500>>, limit, <<>>, TRUE) :
          limit \in {<<1>>, <<1000>>}}
  \cup {SearchBody(<<22>>, <<114>>, <<>>, <<>>, filter, TRUE) :
          filter \in {<<"C", "h", "i", "n", "e", "s", "e">>,
                      <<"b", "o", "g", "u", "s">>,
                      <<"c", "o", "n", "s", "t", "r", "u", "c", "t", "o", "r">>}}
  \cup {SearchBody(<<22>>, <<114>>, <<>>, <<>>, <<>>, FALSE)}

SearchRequests ==
  {[route |-> "search", json_ok |-> TRUE, body |-> b] : b \in SearchBodies}

ClientArgs(lat, lon, radius, limit, filter) ==
  [latitude |-> lat, longitude |-> lon, radius |-> radius, limit |-> limit,
   cuisine_filter |-> filter]

ClientSearchArgs ==
       {ClientArgs(lat, lon, DEFAULT_RADIUS, DEFAULT_LIMIT, <<"a", "l", "l">>) :
          lat \in {-91, 22, 91}, lon \in {-181, 114}}
  \cup {ClientArgs(22, 114, 500, limit, <<"a", "l", "l">>) : limit \in {1, 1000}}
  \cup {ClientArgs(22, 114, DEFAULT_RADIUS, DEFAULT_LIMIT, filter) :
          filter \in {<<"c", "h", "i", "n", "e", "s", "e">>,
                      <<"C", "h", "i", "n", "e", "s", "e">>,
                      <<"b", "o", "g", "u", "s">>,
                      <<"t", "o", "S", "t", "r", "i", "n", "g">>}}

(***************************************************************************)
(* SpecSearch: one search at a time, through the gateway endpoint or       *)
(* through the client library, against an arbitrary provider.              *)
(***************************************************************************)
EmptyBackend ==
  [cache |-> <<>>, scrapes |-> {}, started |-> <<>>, failures |-> 0,
   clock |-> 0]

IdleClassifier == [pc |-> "idle", categories |-> <<>>, name |-> <<>>,
                   cuisines |-> <<>>, score |-> 0]

\* The Restaurants page as first rendered: no position yet, filter "all",
\* radius 2000, nothing selected.  shownFor and openriceFor record which
\* search and which selection the displayed list and images came from.
IdlePage ==
  [gps |-> <<>>, isInitialLoad |-> TRUE,
   cuisineFilter |-> <<"a", "l", "l">>, searchRadius |-> DEFAULT_RADIUS,
   loading |-> FALSE, error |-> <<>>, restaurants |-> <<>>,
   searches |-> {}, issued |-> 0, shownFor |-> <<>>,
   selectedRestaurant |-> <<>>, region |-> "hk",
   openriceImages |-> <<>>, openriceName |-> <<>>, loadingOpenRice |-> FALSE,
   lookups |-> {}, selections |-> 0, openriceFor |-> 0]

MaxNotifications == 2

\* No Camera page yet.  runs counts the startCamera runs, mounts the times
\* the page was mounted; captures counts the handleCapture runs made for
\* each notification, for the properties.
IdleCamera ==
  [mounted |-> FALSE, mounts |-> 0, streamRef |-> <<>>,
   isCameraActive |-> FALSE, isCameraLoading |-> FALSE,
   starts |-> {}, runs |-> 0, live |-> {}, gone |-> {},
   autoCaptureHandledRef |-> <<>>, captures |-> [n \in 1..MaxNotifications |-> 0],
   pendingMeal |-> <<>>, isNamingDialogOpen |-> FALSE,
   isSavingMeal |-> FALSE, saving |-> {},
   toast |-> "none"]

\* The application has not started.  navs counts the navigations made for
\* each notification and lastNav is the time of the last one.
IdleBridge ==
  [platform |-> "none", mounted |-> FALSE, effect |-> 0, listeners |-> {},
   notified |-> 0, shown |-> {}, lastNav |-> 0,
   navs |-> [n \in 1..MaxNotifications |-> 0]]

\* The store of a fresh installation: nothing under STORAGE_KEY, no
\* listener.  uuids counts the ids createId has given out; adds, added,
\* heard and lastOp record the calls made, for the properties.
EmptyStore ==
  [storage |-> <<>>, listeners |-> {}, now |-> 1, uuids |-> 0, adds |-> 0,
   added |-> <<>>, heard |-> [l \in {"dashboard", "meals page"} |-> <<>>],
   lastOp |-> "none"]

InitSearch ==
  /\ gw = [s \in GwSlots |-> IdleConn]
  /\ cl = IdleClient
  /\ cls = IdleClassifier
  /\ be = EmptyBackend
  /\ page = IdlePage
  /\ cam = IdleCamera
  /\ nb = IdleBridge
  /\ meals = EmptyStore

NextSearch ==
  \/ \E req \in SearchRequests : cl.pc = "idle" /\ GwReceive(1, req)
  \/ /\ gw[1].pc = "awaiting"
     /\ \E o \in ProviderOutcomes(gw[1].calls[1]) : GwComplete(1, o)
  \/ GwUpstreamHangs(1)
  \/ GwClose(1)
  \/ \E args \in ClientSearchArgs :
        gw[1].pc = "idle" /\ ClientSearchCall(args)
  \/ /\ cl.pc = "awaiting"
     /\ \E o \in ProviderOutcomes(cl.calls[1]) : ClientSearchSettle(o)
  \/ ClientUpstreamHangs
  \/ ClientReturn

SpecSearch == InitSearch /\ [][NextSearch]_vars

(***************************************************************************)
(* SpecGateway: concurrent requests on every route of the gateway, against *)
(* upstreams that answer anything or nothing.                              *)
(***************************************************************************)
KFC == <<"K", "F", "C">>

Wok == <<"W", "o", "k">>

\* OpenRiceData as the scraping backend returns it.
MatchedRecord(query, scraped_at) ==
  [query |-> query, matched |-> TRUE, name |-> query,
   images |-> <<"img1", "img2", "img3">>, scraped_at |-> scraped_at]

UnmatchedRecord(query) == [query |-> query, matched |-> FALSE, confidence |-> 0]

EnrichPayload(success, data, cache_hit) ==
  [success |-> success, data |-> data, cache_hit |-> cache_hit]

GeocodeFeature ==
  [properties |-> <<[formatted |-> "1 Nathan Road, Hong Kong",
                     city |-> "Hong Kong", district |-> "Yau Tsim Mong",
                     country |-> "Hong Kong"]>>]

FailureOutcomes ==
       {Outcome("status", st, "", <<>>, <<>>) : st \in {401, 500}}
  \cup {Outcome("network", 0, m, <<>>, <<>>) : m \in NetworkMessages}
  \cup {Outcome("badjson", 200, "Unexpected token < in JSON at position 0",
                <<>>, <<>>)}

UpstreamOutcomes(call) ==
  FailureOutcomes \cup
  CASE call.target = "geoapify:/v2/places" ->
         {Outcome("ok", 200, "", fs, <<>>) :
            fs \in {<<>>, Cycle(OverLimitPattern, 2)}}
    [] call.target = "geoapify:/v1/geocode/reverse" ->
         {Outcome("ok", 200, "", fs, <<>>) :
            fs \in {<<>>, <<GeocodeFeature>>, <<[properties |-> <<>>]>>}}
    [] call.target = "fastapi:/api/openrice/search" ->
         {Outcome("ok", 200, "", <<>>, <<p>>) :
            p \in {EnrichPayload(TRUE, <<MatchedRecord(KFC, 0)>>, FALSE),
                   EnrichPayload(TRUE, <<UnmatchedRecord(KFC)>>, FALSE),
                   EnrichPayload(TRUE, <<>>, FALSE),
                   EnrichPayload(FALSE, <<>>, FALSE)}}
    [] call.target = "fastapi:/api/openrice/batch" ->
         {Outcome("ok", 200, "", <<>>,
                  <<[success |-> TRUE,
                     data |-> [i \in 1..Len(call.restaurants) |->
                                 UnmatchedRecord(call.restaurants[i])]]>>)}

EnrichRequest(segment) ==
  [route |-> "openrice_search", json_ok |-> TRUE, segment |-> segment]

BatchRequest(json_ok, restaurants) ==
  [route |-> "openrice_batch", json_ok |-> json_ok,
   restaurants |-> restaurants]

GeocodeRequest(lat, lon) ==
  [route |-> "geocode", json_ok |-> TRUE, lat |-> lat, lon |-> lon]

GatewayRequests ==
       {[route |-> "search", json_ok |-> ok,
         body |-> SearchBody(lat, <<114>>, <<>>, <<>>, <<>>, str)] :
          ok \in BOOLEAN, lat \in {<<>>, <<22>>, <<91>>}, str \in BOOLEAN}
  \cup {GeocodeRequest(lat, "114.17") : lat \in {"", "22.32"}}
  \cup {EnrichRequest(seg) :
          seg \in {<<>>, KFC, <<"%", "2", "0">>, <<"%", "z", "z">>,
                   <<"1", "0", "0", "%", "2", "5">>}}
  \cup {BatchRequest(TRUE, r) : r \in {<<>>, << <<>> >>, << <<KFC, Wok>> >>}}
  \cup {BatchRequest(FALSE, <<>>)}
  \cup {[route |-> "analyze", json_ok |-> TRUE, has_file |-> f] :
          f \in BOOLEAN}
  \cup {[route |-> "health", json_ok |-> TRUE],
        [route |-> "other", json_ok |-> TRUE]}

NextGateway ==
  \/ \E s \in GwSlots, req \in GatewayRequests : GwReceive(s, req)
  \/ \E s \in GwSlots :
        /\ gw[s].pc = "awaiting"
        /\ \E o \in UpstreamOutcomes(gw[s].calls[1]) : GwComplete(s, o)
  \/ \E s \in GwSlots : GwUpstreamHangs(s)
  \/ \E s \in GwSlots : GwClose(s)

SpecGateway == InitSearch /\ [][NextGateway]_vars

(***************************************************************************)
(* The scraping backend behind /api/openrice/search: enrichment cache,     *)
(* in-flight registry and orchestrator, with the scraper as a stub whose   *)
(* invocations are logged.                                                  *)
(*   be.cache    normalized name -> stored record                          *)
(*   be.scrapes  the scrapes in flight, each with the gateway connections  *)
(*               waiting on it                                              *)
(*   be.started  normalized name -> number of scraper invocations          *)
(*   be.failures number of scraper invocations that failed                 *)
(*   be.clock    the current day                                            *)
(***************************************************************************)
RETENTION_DAYS == 7

MaxClock == 8

MaxFailures == 1

\* Cache key: trim + lower-case.
Normalize(name) == toLowerCase(trim(name))

\* Variant: a record is dropped on the last day of the window.
CacheGetEarlyExpiry(cache, key, now) ==
  IF key \in DOMAIN cache /\ now - cache[key].scraped_at < RETENTION_DAYS
    THEN <<cache[key]>>
    ELSE <<>>

\* get: a record older than the retention window is absent.
CacheGet(cache, key, now) ==
  IF key \in DOMAIN cache /\ ~(now - cache[key].scraped_at > RETENTION_DAYS)
    THEN <<cache[key]>>
    ELSE <<>>

\* put: unconditional upsert.
CachePut(cache, key, record) ==
  [k \in DOMAIN cache \cup {key} |-> IF k = key THEN record ELSE cache[k]]

\* Variant: the in-flight marker is never found.
InFlightNever(scrapes, key) == {}

\* The in-flight marker of a key: the scrapes running for it.
InFlight(scrapes, key) == {sc \in scrapes : sc.key = key}

Invocations(started, key) ==
  IF key \in DOMAIN started THEN started[key] ELSE 0

\* The connection awaits the backend and the backend has not yet seen it.
Forwarded(s) ==
  /\ gw[s].pc = "awaiting"
  /\ ~gw[s].hung
  /\ gw[s].calls[1].target = "fastapi:/api/openrice/search"
  /\ \A sc \in be.scrapes : s \notin sc.waiters

ForwardedName(s) == decodeURIComponent(gw[s].calls[1].segment)[1]

EnrichOutcome(record, cache_hit) ==
  Outcome("ok", 200, "", <<>>, <<EnrichPayload(TRUE, <<record>>, cache_hit)>>)

\* The connection table once every waiter in S has been answered.
GwFanOut(S, outcome) ==
  [s \in GwSlots |-> IF s \in S THEN GwSettled(s, outcome)[s] ELSE gw[s]]

\* enrich(name), cache hit: answered at once.
BeCacheHit(s) ==
  /\ Forwarded(s)
  /\ LET hit == CacheGet(be.cache, Normalize(ForwardedName(s)), be.clock)
     IN  /\ hit # <<>>
         /\ gw' = GwSettled(s, EnrichOutcome(hit[1], TRUE))
  /\ UNCHANGED <<be, cl, cls, front>>

\* enrich(name), cache miss while a scrape for the key is in flight: wait
\* on its result.
BeJoinInFlight(s) ==
  /\ Forwarded(s)
  /\ LET key == Normalize(ForwardedName(s))
     IN  /\ CacheGet(be.cache, key, be.clock) = <<>>
         /\ InFlight(be.scrapes, key) # {}
         /\ LET sc == CHOOSE x \in InFlight(be.scrapes, key) : TRUE
            IN  be' = [be EXCEPT !.scrapes =
                         (@ \ {sc}) \cup
                         {[sc EXCEPT !.waiters = @ \cup {s}]}]
  /\ UNCHANGED <<gw, cl, cls, front>>

\* enrich(name), cache miss and nothing in flight: mark the key and invoke
\* the scraper.
BeStartScrape(s) ==
  /\ Forwarded(s)
  /\ LET name == ForwardedName(s)
         key == Normalize(name)
     IN  /\ CacheGet(be.cache, key, be.clock) = <<>>
         /\ InFlight(be.scrapes, key) = {}
         /\ be' = [be EXCEPT
              !.scrapes = @ \cup {[key |-> key, query |-> name,
                                   waiters |-> {s}]},
              !.started = [k \in DOMAIN @ \cup {key} |->
                             IF k = key THEN Invocations(@, key) + 1
                             ELSE @[k]]]
  /\ UNCHANGED <<gw, cl, cls, front>>

\* The scrape returns a matched record: store it, clear the marker, fan the
\* result out.
ScrapeSucceeds(sc) ==
  /\ sc \in be.scrapes
  /\ LET record == MatchedRecord(sc.query, be.clock)
     IN  /\ be' = [be EXCEPT
                !.cache = CachePut(@, sc.key, record),
                !.scrapes = @ \ {sc}]
         /\ gw' = GwFanOut(sc.waiters, EnrichOutcome(record, FALSE))
  /\ UNCHANGED <<cl, cls, front>>

\* A failing scrape whose unmatched record is stored like a successful one.
ScrapeFailsCached(sc) ==
  /\ sc \in be.scrapes
  /\ be.failures < MaxFailures
  /\ be' = [be EXCEPT
        !.cache = CachePut(@, sc.key,
                    [query |-> sc.query, matched |-> FALSE, confidence |-> 0,
                     scraped_at |-> be.clock]),
        !.scrapes = @ \ {sc}, !.failures = @ + 1]
  /\ gw' = GwFanOut(sc.waiters, EnrichOutcome(UnmatchedRecord(sc.query), FALSE))
  /\ UNCHANGED <<cl, cls, front>>

\* The scrape fails: an unmatched record goes to the waiters and nothing is
\* stored.
ScrapeFails(sc) ==
  /\ sc \in be.scrapes
  /\ be.failures < MaxFailures
  /\ be' = [be EXCEPT !.scrapes = @ \ {sc}, !.failures = @ + 1]
  /\ gw' = GwFanOut(sc.waiters, EnrichOutcome(UnmatchedRecord(sc.query), FALSE))
  /\ UNCHANGED <<cl, cls, front>>

Tick ==
  /\ be.clock < MaxClock
  /\ be' = [be EXCEPT !.clock = @ + 1]
  /\ UNCHANGED <<gw, cl, cls, front>>

(***************************************************************************)
(* SpecEnrich: concurrent single-name lookups through the gateway to the   *)
(* scraping backend, over several days.                                     *)
(***************************************************************************)
EnrichSegments ==
  {KFC, <<"%", "2", "0", "k", "f", "c", "%", "2", "0">>}

NextEnrich ==
  \/ \E s \in GwSlots, seg \in EnrichSegments : GwReceive(s, EnrichRequest(seg))
  \/ \E s \in GwSlots : BeCacheHit(s)
  \/ \E s \in GwSlots : BeJoinInFlight(s)
  \/ \E s \in GwSlots : BeStartScrape(s)
  \/ \E sc \in be.scrapes : ScrapeSucceeds(sc)
  \/ \E sc \in be.scrapes : ScrapeFails(sc)
  \/ \E s \in GwSlots : GwClose(s)
  \/ Tick

SpecEnrich == InitSearch /\ [][NextEnrich]_vars

(***************************************************************************)
(* The scraping backend behind /api/openrice/batch: the orchestrator's     *)
(* batch variant.  The names are looked up one after the other; failed     *)
(* holds the positions whose scrape fails, should it be attempted.         *)
(***************************************************************************)
SpacedKfc == <<" ", "k", "f", "c", " ">>

BatchStart(cache, started) ==
  [cache |-> cache, started |-> started, results |-> <<>>, failures |-> 0]

\* Variant: a lookup whose scrape fails is left out of the results.
BatchItemDroppingFailure(st, name, fails, now) ==
  LET key == Normalize(name)
      hit == CacheGet(st.cache, key, now)
      counted == [k \in DOMAIN st.started \cup {key} |->
                    IF k = key THEN Invocations(st.started, key) + 1
                    ELSE st.started[k]]
  IN  IF hit # <<>> THEN [st EXCEPT !.results = Append(@, hit[1])]
      ELSE IF fails
        THEN [st EXCEPT !.started = counted, !.failures = @ + 1]
      ELSE [st EXCEPT !.started = counted,
                      !.cache = CachePut(@, key, MatchedRecord(name, now)),
                      !.results = Append(@, MatchedRecord(name, now))]

\* enrich(name) for one item of a batch: cache hit, or a scrape that is
\* stored on success and degrades to an unmatched record on failure.
BatchItem(st, name, fails, now) ==
  LET key == Normalize(name)
      hit == CacheGet(st.cache, key, now)
      counted == [k \in DOMAIN st.started \cup {key} |->
                    IF k = key THEN Invocations(st.started, key) + 1
                    ELSE st.started[k]]
  IN  IF hit # <<>> THEN [st EXCEPT !.results = Append(@, hit[1])]
      ELSE IF fails
        THEN [st EXCEPT !.started = counted, !.failures = @ + 1,
                        !.results = Append(@, UnmatchedRecord(name))]
      ELSE [st EXCEPT !.started = counted,
                      !.cache = CachePut(@, key, MatchedRecord(name, now)),
                      !.results = Append(@, MatchedRecord(name, now))]

RECURSIVE BatchFrom(_, _, _, _, _)
BatchFrom(st, names, failed, i, now) ==
  IF i > Len(names) THEN st
  ELSE BatchFrom(BatchItem(st, names[i], i \in failed, now),
                 names, failed, i + 1, now)

BatchOutcome(results) ==
  Outcome("ok", 200, "", <<>>, <<[success |-> TRUE, data |-> results]>>)

BeBatch(s, failed) ==
  /\ gw[s].pc = "awaiting"
  /\ ~gw[s].hung
  /\ gw[s].calls[1].target = "fastapi:/api/openrice/batch"
  /\ failed \subseteq 1..Len(gw[s].calls[1].restaurants)
  /\ LET st == BatchFrom(BatchStart(be.cache, be.started),
                         gw[s].calls[1].restaurants, failed, 1, be.clock)
     IN  /\ be.failures + st.failures <= MaxFailures
         /\ be' = [be EXCEPT !.cache = st.cache, !.started = st.started,
                             !.failures = @ + st.failures]
         /\ gw' = GwSettled(s, BatchOutcome(st.results))
  /\ UNCHANGED <<cl, cls, front>>

(***************************************************************************)
(* SpecBatch: batch lookups through the gateway to the scraping backend,   *)
(* within one day.                                                          *)
(***************************************************************************)
BatchLists ==
  {<<KFC>>, <<KFC, Wok>>, <<Wok, KFC>>, <<KFC, SpacedKfc>>}

NextBatch ==
  \/ \E s \in GwSlots, names \in BatchLists :
        GwReceive(s, BatchRequest(TRUE, <<names>>))
  \/ \E s \in GwSlots, failed \in SUBSET (1..2) : BeBatch(s, failed)
  \/ \E s \in GwSlots : GwClose(s)

SpecBatch == InitSearch /\ [][NextBatch]_vars

(***************************************************************************)
(* Client library: fetchOpenRiceImages(restaurantName), the lookup of one  *)
(* name through the gateway.  The gateway's answer reaches the client as   *)
(* an outcome whose data[1] is the response body.                          *)
(***************************************************************************)
IMAGE_CAP == 3

MaxImages == 4

GatewayLookupCall(restaurantName) ==
  [target |-> "gateway:/api/openrice/search", method |-> "GET",
   segment |-> encodeURIComponent(restaurantName), timeout |-> NoTimeout]

\* The function up to its await of fetch.
OpenRiceImagesStart(restaurantName) ==
  Awaiting(GatewayLookupCall(restaurantName))

\* fetch's view of the gateway's response.
GatewayAnswer(resp) ==
  Outcome(IF resp.status \in 200..299 THEN "ok" ELSE "status",
          resp.status, "", <<>>, <<resp.body>>)

\* `OpenRice API error: ${response.status} - ${errorText}`
OpenRiceErrorMessage(status, errorText) ==
  <<"OpenRice API error: ", status, " - ", errorText>>

\* The function from the settled fetch to its return value.
OpenRiceImagesFinish(outcome) ==
  IF outcome.kind = "status"
    THEN [success |-> FALSE,
          error |-> OpenRiceErrorMessage(outcome.status, outcome.data[1])]
  ELSE IF outcome.kind # "ok"
    THEN [success |-> FALSE,
          error |-> OrMessage(outcome.message, "Failed to fetch OpenRice data")]
  ELSE LET result == outcome.data[1] IN
       IF /\ "success" \in DOMAIN result
          /\ result.success
          /\ "data" \in DOMAIN result
          /\ result.data.matched
         THEN [success |-> TRUE,
               images |-> IF "images" \in DOMAIN result.data
                            THEN result.data.images ELSE <<>>,
               name |-> IF "name" \in DOMAIN result.data
                          THEN <<result.data.name>> ELSE <<>>]
         ELSE [success |-> FALSE,
               error |-> IF "error" \in DOMAIN result
                           THEN OrMessage(result.error,
                                          "Restaurant not found on OpenRice")
                           ELSE "Restaurant not found on OpenRice"]

ImagesCall(restaurantName) ==
  /\ cl.pc = "idle"
  /\ gw[1].pc = "idle"
  /\ cl' = [pc |-> "awaiting",
            args |-> [route |-> "images", name |-> restaurantName],
            calls |-> OpenRiceImagesStart(restaurantName).calls,
            outcome |-> <<>>, result |-> <<>>, hung |-> FALSE]
  /\ UNCHANGED exceptCl

\* The client's request reaches the gateway.
ImagesArrive ==
  /\ cl.pc = "awaiting"
  /\ GwReceive(1, EnrichRequest(cl.calls[1].segment))

\* The gateway's response reaches the client and the function returns.
ImagesSettle ==
  /\ cl.pc = "awaiting"
  /\ gw[1].pc = "done"
  /\ LET outcome == GatewayAnswer(gw[1].resp[1])
     IN  cl' = [cl EXCEPT !.pc = "done",
                          !.outcome = <<outcome>>,
                          !.result = <<OpenRiceImagesFinish(outcome)>>]
  /\ gw' = [gw EXCEPT ![1] = IdleConn]
  /\ UNCHANGED <<cls, be, front>>

\* The gateway cannot be reached: fetch rejects.
ImagesUnreachable(message) ==
  /\ cl.pc = "awaiting"
  /\ gw[1].pc = "idle"
  /\ LET outcome == Outcome("network", 0, message, <<>>, <<>>)
     IN  cl' = [cl EXCEPT !.pc = "done",
                          !.outcome = <<outcome>>,
                          !.result = <<OpenRiceImagesFinish(outcome)>>]
  /\ UNCHANGED exceptCl

(***************************************************************************)
(* SpecImages: one image lookup at a time, from the client through the     *)
(* gateway, against a backend that answers with any number of images up    *)
(* to MaxImages.                                                            *)
(***************************************************************************)
ImageUrls(n) == [i \in 1..n |-> "img" \o NatToString(i)]

ImagesRecord(query, n) ==
  [MatchedRecord(query, 0) EXCEPT !.images = ImageUrls(n)]

MatchedWithoutImages(query) ==
  [query |-> query, matched |-> TRUE, name |-> query, scraped_at |-> 0]

ImageBackendOutcomes(call) ==
  LET query == decodeURIComponent(call.segment)[1] IN
  FailureOutcomes
    \cup {EnrichOutcome(ImagesRecord(query, n), hit) :
            n \in 0..MaxImages, hit \in BOOLEAN}
    \cup {EnrichOutcome(UnmatchedRecord(query), FALSE),
          EnrichOutcome(MatchedWithoutImages(query), FALSE),
          Outcome("ok", 200, "", <<>>, <<EnrichPayload(FALSE, <<>>, FALSE)>>)}

LookupNames ==
  {<<>>, <<" ">>, KFC, Wok, <<"D", "i", "m", " ", "S", "u", "m">>,
   <<"1", "0", "0", "%">>, <<"P", "h", "o">>}

NextImages ==
  \/ \E name \in LookupNames : ImagesCall(name)
  \/ ImagesArrive
  \/ /\ gw[1].pc = "awaiting"
     /\ \E o \in ImageBackendOutcomes(gw[1].calls[1]) : GwComplete(1, o)
  \/ ImagesSettle
  \/ \E m \in NetworkMessages : ImagesUnreachable(m)
  \/ ClientReturn

SpecImages == InitSearch /\ [][NextImages]_vars

(***************************************************************************)
(* SpecClassify: the classifier applied to bounded category lists and      *)
(* names.                                                                   *)
(***************************************************************************)
MaxCategories == 2

CategoryTags ==
  { <<"c", "a", "t", "e", "r", "i", "n", "g", ".", "r", "e", "s", "t", "a", "u", "r", "a", "n", "t">>,
    <<"V", "e", "g", "a", "n">>,
    <<"h", "e", "a", "l", "t", "h", "y">>,
    <<"c", "a", "t", "e", "r", "i", "n", "g", ".", "f", "a", "s", "t", "_", "f", "o", "o", "d">>,
    <<"D", "i", "m">>,
    <<"s", "u", "m">>,
    <<"b", "b", "q">>,
    <<"O", "r", "g", "a", "n", "i", "c", " ", "C", "a", "f", "e">> }

RestaurantNames ==
  { <<>>,
    UNKNOWN_RESTAURANT,
    <<"S", "u", "s", "h", "i", " ", "B", "a", "r">>,
    <<"C", "u", "r", "r", "y", " ", "H", "o", "u", "s", "e">>,
    <<"K", "F", "C">>,
    <<"S", "t", "e", "a", "k", "h", "o", "u", "s", "e", " ", "G", "r", "i", "l", "l">>,
    <<"P", "h", "o", " ", "2", "4">> }

CategoryLists == SeqsUpTo(CategoryTags, MaxCategories)

\* classify applied to one input, as processRestaurant applies it.
Classify(categories, name) ==
  /\ cls.pc = "idle"
  /\ LET cuisines == detectCuisines(categories, name)
     IN  cls' = [pc |-> "done", categories |-> categories, name |-> name,
                 cuisines |-> cuisines,
                 score |-> calculateHealthScore(cuisines, categories)]
  /\ UNCHANGED exceptCls

ClassifyReturn ==
  /\ cls.pc = "done"
  /\ cls' = IdleClassifier
  /\ UNCHANGED exceptCls

NextClassify ==
  \/ \E categories \in CategoryLists, name \in RestaurantNames :
        Classify(categories, name)
  \/ ClassifyReturn

SpecClassify == InitSearch /\ [][NextClassify]_vars

(***************************************************************************)
(* SpecScore: calculateHealthScore applied to bounded cuisine lists and    *)
(* category lists, the cuisine lists including none and a label the score  *)
(* table does not hold.                                                    *)
(***************************************************************************)
MaxCuisines == 2

ScoreCuisines == {"vegan", "japanese", "fast_food", "general", "fusion"}

ScoreTags ==
  { <<"c", "a", "t", "e", "r", "i", "n", "g", ".", "r", "e", "s", "t", "a", "u", "r", "a", "n", "t">>,
    <<"O", "r", "g", "a", "n", "i", "c">>,
    <<"v", "e", "g">>, <<"a", "n">> }

Score(cuisines, categories) ==
  /\ cls.pc = "idle"
  /\ cls' = [pc |-> "scored", categories |-> categories, name |-> <<>>,
             cuisines |-> cuisines,
             score |-> calculateHealthScore(cuisines, categories)]
  /\ UNCHANGED exceptCls

ScoreReturn ==
  /\ cls.pc = "scored"
  /\ cls' = IdleClassifier
  /\ UNCHANGED exceptCls

NextScore ==
  \/ \E cuisines \in SeqsUpTo(ScoreCuisines, MaxCuisines),
        categories \in SeqsUpTo(ScoreTags, MaxCategories) :
        Score(cuisines, categories)
  \/ ScoreReturn

SpecScore == InitSearch /\ [][NextScore]_vars

(***************************************************************************)
(* Restaurants page (Dashboard.tsx).  An event handler or effect reads the *)
(* state of the render it was created in, that is the state before the     *)
(* handler's own setState calls take effect.                               *)
(***************************************************************************)
MaxSearches == 2

MaxSelections == 2

HomePosition == [latitude |-> 22, longitude |-> 114]

\* fetchRestaurants as created by the render of state p: the search it
\* starts, with the radius and the filter of that render.
fetchRestaurants(p) ==
  LET args == ClientArgs(p.gps[1].latitude, p.gps[1].longitude,
                         p.searchRadius, DEFAULT_LIMIT, p.cuisineFilter)
  IN  [id |-> p.issued + 1, args |-> args,
       call |-> ClientSearchStart(args).calls[1]]

\* The page state once the given render's fetchRestaurants has started:
\* setLoading(true), setError(null) and the search in flight.
Fetching(next, rendered) ==
  [next EXCEPT !.loading = TRUE, !.error = <<>>,
               !.searches = @ \cup {fetchRestaurants(rendered)},
               !.issued = @ + 1]

\* useGeolocation delivers a position; the auto-fetch effect runs once.
PositionFound ==
  /\ page.gps = <<>>
  /\ page.issued < MaxSearches
  /\ LET located == [page EXCEPT !.gps = <<HomePosition>>]
     IN  page' = IF page.isInitialLoad
                   THEN Fetching([located EXCEPT !.isInitialLoad = FALSE],
                                 located)
                   ELSE located
  /\ UNCHANGED exceptPage

\* Cuisine menu item onClick: setCuisineFilter(option.value);
\* if (position) fetchRestaurants().
PickCuisine(value) ==
  /\ page.issued < MaxSearches
  /\ value # page.cuisineFilter
  /\ LET picked == [page EXCEPT !.cuisineFilter = value]
     IN  page' = IF page.gps # <<>> THEN Fetching(picked, page) ELSE picked
  /\ UNCHANGED exceptPage

\* Radius menu item onClick: setSearchRadius(radius);
\* if (position) fetchRestaurants().
PickRadius(radius) ==
  /\ page.issued < MaxSearches
  /\ radius # page.searchRadius
  /\ LET picked == [page EXCEPT !.searchRadius = radius]
     IN  page' = IF page.gps # <<>> THEN Fetching(picked, page) ELSE picked
  /\ UNCHANGED exceptPage

\* Refresh button: onClick={fetchRestaurants}.
Refresh ==
  /\ page.issued < MaxSearches
  /\ page.gps # <<>>
  /\ page' = Fetching(page, page)
  /\ UNCHANGED exceptPage

\* searchRestaurants returns for one search in flight.
SearchSettles(search, outcome) ==
  /\ search \in page.searches
  /\ LET result == ClientSearchFinish(search.args, outcome)
         settled == [page EXCEPT !.searches = @ \ {search},
                                 !.loading = FALSE]
     IN  page' = IF result.success
                   THEN [settled EXCEPT !.restaurants = result.restaurants,
                                        !.shownFor = <<search.args>>]
                   ELSE [settled EXCEPT
                           !.error = <<OrMessage(result.error_message,
                                         "Failed to fetch restaurants")>>]
  /\ UNCHANGED exceptPage

\* A restaurant of the list is selected and its dialog opens; the image
\* effect runs for the new selection.
SelectRestaurant(i) ==
  /\ page.selectedRestaurant = <<>>
  /\ page.selections < MaxSelections
  /\ i \in 1..Len(page.restaurants)
  /\ LET opened == [page EXCEPT
                      !.selectedRestaurant = <<page.restaurants[i]>>,
                      !.selections = @ + 1,
                      !.openriceImages = <<>>, !.openriceName = <<>>,
                      !.openriceFor = 0]
     IN  page' = IF page.region = "hk"
                   THEN [opened EXCEPT
                           !.loadingOpenRice = TRUE,
                           !.lookups = @ \cup
                             {[selection |-> page.selections + 1,
                               name |-> page.restaurants[i].name,
                               call |-> OpenRiceImagesStart(
                                          page.restaurants[i].name).calls[1]]}]
                   ELSE opened
  /\ UNCHANGED exceptPage

\* The dialog is closed: setSelectedRestaurant(null); the image effect
\* clears the images.
CloseRestaurant ==
  /\ page.selectedRestaurant # <<>>
  /\ page' = [page EXCEPT !.selectedRestaurant = <<>>,
                          !.openriceImages = <<>>, !.openriceName = <<>>,
                          !.openriceFor = 0]
  /\ UNCHANGED exceptPage

\* fetchOpenRiceImages resolves for one lookup in flight: its then and
\* finally callbacks run.
LookupSettles(lookup, result) ==
  /\ lookup \in page.lookups
  /\ LET settled == [page EXCEPT !.lookups = @ \ {lookup},
                                 !.loadingOpenRice = FALSE]
     IN  page' = IF result.success /\ Len(result.images) > 0
                   THEN [settled EXCEPT !.openriceImages = result.images,
                                        !.openriceName = result.name,
                                        !.openriceFor = lookup.selection]
                   ELSE settled
  /\ UNCHANGED exceptPage

(***************************************************************************)
(* SpecPage: one user on the Restaurants page, with searches and image     *)
(* lookups that complete in any order.                                     *)
(***************************************************************************)
PageCuisines == {<<"a", "l", "l">>, <<"c", "h", "i", "n", "e", "s", "e">>}

PageRadii == {1000, DEFAULT_RADIUS}

PageProviderOutcomes(call) ==
  {Outcome("ok", 200, "", fs, <<>>) :
     fs \in {<<>>, Cycle(OverLimitPattern, 2)}}
  \cup {Outcome("status", 500, "", <<>>, <<>>)}

\* What fetchOpenRiceImages can return for a name.
LookupResults(name) ==
  {OpenRiceImagesFinish(
     GatewayAnswer(Respond(200, [success |-> TRUE,
                                 data |-> ImagesRecord(name, n)]))) :
     n \in {0, IMAGE_CAP}}
  \cup {OpenRiceImagesFinish(Outcome("network", 0, "fetch failed", <<>>, <<>>))}

NextPage ==
  \/ PositionFound
  \/ \E value \in PageCuisines : PickCuisine(value)
  \/ \E radius \in PageRadii : PickRadius(radius)
  \/ Refresh
  \/ \E search \in page.searches :
        \E outcome \in PageProviderOutcomes(search.call) :
           SearchSettles(search, outcome)
  \/ \E i \in 1..MaxFeatures : SelectRestaurant(i)
  \/ CloseRestaurant
  \/ \E lookup \in page.lookups :
        \E result \in LookupResults(lookup.name) :
           LookupSettles(lookup, result)

SpecPage == InitSearch /\ [][NextPage]_vars

(***************************************************************************)
(* MealsStore (meals.ts).  A meal in memory has id <<>> when its id is     *)
(* undefined; a stored entry has a key <<>> when the JSON text lacks it.   *)
(* Ids are <<kind, n>>: "caller" ids are given by the caller, "uuid" ids   *)
(* come from createId and "now" ids from `${Date.now()}`.                   *)
(***************************************************************************)
MaxAdds == 2

MaxNow == 2

Listeners == {"dashboard", "meals page"}

\* JSON.stringify(meals): a key whose value is undefined is left out.
Stringify(list) ==
  [i \in 1..Len(list) |->
     [id |-> list[i].id, title |-> <<list[i].title>>,
      source |-> list[i].source]]

\* safeParse: no text gives the empty list; every entry gets an id and a
\* title when the text has none.
safeParse(raw, now) ==
  IF raw = <<>> THEN <<>>
  ELSE [i \in 1..Len(raw[1]) |->
          [id |-> IF raw[1][i].id = <<>> THEN <<<<"now", now>>>>
                  ELSE raw[1][i].id,
           title |-> IF raw[1][i].title = <<>> THEN "Captured meal"
                     ELSE raw[1][i].title[1],
           source |-> raw[1][i].source]]

readMeals == safeParse(meals.storage, meals.now)

getAll == readMeals

\* A caller's argument of add: idArg is "absent" when the object has no id
\* key, "undefined" when the key is there with the value undefined, and
\* "given" when it is there with the caller's id.
MealArgs ==
  [idArg : {"absent", "undefined", "given"}, title : {"Lunch", "Tea"},
   source : {"camera"}]

\* Variant: add appends the new meal after the stored ones.
AddedMealsAppended(next, stored) == stored \o <<next>>

\* [next, ...readMeals()]
AddedMeals(next, stored) == <<next>> \o stored

\* { id: meal.id ?? createId(), ...meal }: the spread copies the caller's id
\* key over the first one whenever the caller's object has the key.
NextMeal(meal, uuid) ==
  [id |-> IF meal.idArg = "absent" THEN <<<<"uuid", uuid>>>>
          ELSE IF meal.idArg = "undefined" THEN <<>>
          ELSE <<<<"caller", 1>>>>,
   title |-> meal.title, source |-> meal.source]

\* writeMeals: setItem, then every listener is called with the list.
writeMeals(store, list) ==
  [store EXCEPT !.storage = <<Stringify(list)>>,
                !.heard = [l \in Listeners |->
                             IF l \in store.listeners THEN <<list>> ELSE @[l]]]

\* MealsStore.add as run on the store; setItem throws when the quota is
\* exceeded (full), and then neither the storage nor a listener is touched.
StoreAdd(store, meal, full) ==
  IF full THEN [store EXCEPT !.adds = @ + 1, !.lastOp = "add failed"]
  ELSE [writeMeals(store, AddedMeals(NextMeal(meal, store.uuids + 1),
                                     safeParse(store.storage, store.now)))
          EXCEPT !.uuids = IF meal.idArg = "absent" THEN @ + 1 ELSE @,
                 !.added = <<meal>> \o @,
                 !.adds = @ + 1,
                 !.lastOp = "add"]

Add(meal, full) ==
  /\ meals.adds < MaxAdds
  /\ meals' = StoreAdd(meals, meal, full)
  /\ UNCHANGED exceptMeals

Clear ==
  /\ meals.lastOp # "clear"
  /\ meals' = [writeMeals(meals, <<>>) EXCEPT !.added = <<>>,
                                             !.lastOp = "clear"]
  /\ UNCHANGED exceptMeals

\* MealsStore.subscribe(listener)
Subscribe(l) ==
  /\ l \notin meals.listeners
  /\ meals' = [meals EXCEPT !.listeners = @ \cup {l}, !.lastOp = "subscribe"]
  /\ UNCHANGED exceptMeals

\* The function returned by subscribe is invoked.
Unsubscribe(l) ==
  /\ l \in meals.listeners
  /\ meals' = [meals EXCEPT !.listeners = @ \ {l}, !.lastOp = "unsubscribe"]
  /\ UNCHANGED exceptMeals

\* Date.now() moves on.
DateNowAdvances ==
  /\ meals.now < MaxNow
  /\ meals' = [meals EXCEPT !.now = @ + 1, !.lastOp = "tick"]
  /\ UNCHANGED exceptMeals

NextMeals ==
  \/ \E meal \in MealArgs, full \in BOOLEAN : Add(meal, full)
  \/ Clear
  \/ \E l \in Listeners : Subscribe(l)
  \/ \E l \in Listeners : Unsubscribe(l)
  \/ DateNowAdvances

SpecMeals == InitSearch /\ [][NextMeals]_vars

(***************************************************************************)
(* Camera page (Camera.tsx) and NotificationBridge (part_001).  A media    *)
(* stream is named by the startCamera run that acquired it; cam.live holds *)
(* the streams whose tracks have not been stopped.                         *)
(***************************************************************************)
MaxStarts == 2

MaxMounts == 2

\* stopCamera: the stream in streamRef is stopped and forgotten.
stopCamera(c) ==
  [c EXCEPT !.live = IF c.streamRef = <<>> THEN @ ELSE @ \ {c.streamRef[1]},
            !.streamRef = <<>>,
            !.isCameraActive = FALSE]

\* startCamera up to its first await: getUserMedia is asked for a stream.
startCamera(c) ==
  [c EXCEPT !.isCameraLoading = TRUE,
            !.runs = @ + 1,
            !.starts = @ \cup {[run |-> c.runs + 1, granted |-> FALSE,
                                orphan |-> FALSE]}]

\* openNamingDialog: the photo becomes the pending meal and the dialog opens.
openNamingDialog(c, source) ==
  [c EXCEPT !.pendingMeal = <<[source |-> source]>>,
            !.isNamingDialogOpen = TRUE]

\* handleCapture: the native camera on a device; in a browser the preview
\* is started when it is not running, and otherwise a frame is taken
\* (shot is "photo" when the frame or the native photo was obtained).
handleCapture(c, native, shot) ==
  IF native
    THEN IF shot = "photo" THEN openNamingDialog(c, "camera") ELSE c
    ELSE IF ~c.isCameraActive THEN startCamera(c)
    ELSE IF shot = "photo"
           THEN [stopCamera(openNamingDialog(c, "camera"))
                   EXCEPT !.toast = "Photo captured"]
           ELSE [c EXCEPT !.toast = "Capture failed"]

\* The state of a Camera component that has just been mounted.
Mounted(c) ==
  [c EXCEPT !.mounted = TRUE, !.mounts = @ + 1,
            !.streamRef = <<>>, !.isCameraActive = FALSE,
            !.isCameraLoading = FALSE, !.autoCaptureHandledRef = <<>>,
            !.pendingMeal = <<>>, !.isNamingDialogOpen = FALSE,
            !.isSavingMeal = FALSE, !.toast = "none"]

\* navigate("/camera", {state: {autoCaptureToken}}) for notification n,
\* followed by the auto-capture effect of the Camera page.
AutoCapture(c, token, n, native, shot) ==
  LET shown == IF c.mounted THEN c ELSE Mounted(c)
  IN  IF shown.autoCaptureHandledRef = <<token>> THEN shown
      ELSE handleCapture(
             [shown EXCEPT !.autoCaptureHandledRef = <<token>>,
                           !.captures[n] = @ + 1],
             native, shot)

\* The user opens the Camera page.
OpenCamera ==
  /\ nb.platform # "none"
  /\ ~cam.mounted
  /\ cam.mounts < MaxMounts
  /\ cam' = Mounted(cam)
  /\ UNCHANGED exceptCam

\* The Camera page is left: the unmount cleanup calls stopCamera.
LeaveCamera ==
  /\ cam.mounted
  /\ cam' = [stopCamera(cam) EXCEPT
               !.mounted = FALSE,
               !.starts = {[s EXCEPT !.orphan = TRUE] : s \in @},
               !.saving = {[s EXCEPT !.orphan = TRUE] : s \in @}]
  /\ UNCHANGED exceptCam

\* The capture button: onClick={handleCapture}, disabled while loading.
TapCapture(shot) ==
  /\ cam.mounted
  /\ ~cam.isCameraLoading
  /\ ~cam.isNamingDialogOpen
  /\ nb.platform = "native" \/ cam.isCameraActive \/ cam.runs < MaxStarts
  /\ cam' = handleCapture(cam, nb.platform = "native", shot)
  /\ UNCHANGED exceptCam

\* The stop button: onClick={stopCamera}.
TapStop ==
  /\ cam.mounted
  /\ cam.isCameraActive
  /\ cam' = stopCamera(cam)
  /\ UNCHANGED exceptCam

\* getUserMedia resolves for a startCamera run.  Without a video element
\* (the page is gone) the stream is stopped at once and the run fails.
StreamGranted(s) ==
  /\ s \in cam.starts
  /\ ~s.granted
  /\ cam' = IF s.orphan
              THEN [cam EXCEPT !.starts = @ \ {s}]
              ELSE [cam EXCEPT !.starts = (@ \ {s}) \cup
                                          {[s EXCEPT !.granted = TRUE]},
                               !.live = @ \cup {s.run}]
  /\ UNCHANGED exceptCam

\* getUserMedia rejects: the catch block reports it.
StreamRefused(s) ==
  /\ s \in cam.starts
  /\ ~s.granted
  /\ cam' = IF s.orphan
              THEN [cam EXCEPT !.starts = @ \ {s}]
              ELSE [cam EXCEPT !.starts = @ \ {s},
                               !.isCameraLoading = FALSE,
                               !.toast = "Camera unavailable"]
  /\ UNCHANGED exceptCam

\* waitForVideoReady and play() are over: streamRef.current = mediaStream,
\* setIsCameraActive(true), and in finally setIsCameraLoading(false).  The
\* state setters of a page that is gone do nothing, and its streamRef,
\* which no page reads any more, keeps the stream (cam.gone).
VideoReady(s) ==
  /\ s \in cam.starts
  /\ s.granted
  /\ cam' = IF s.orphan
              THEN [cam EXCEPT !.starts = @ \ {s}, !.gone = @ \cup {s.run}]
              ELSE [cam EXCEPT !.starts = @ \ {s},
                               !.streamRef = <<s.run>>,
                               !.isCameraActive = TRUE,
                               !.isCameraLoading = FALSE,
                               !.toast = "Camera ready"]
  /\ UNCHANGED exceptCam

\* waitForVideoReady rejects (feed error or timeout): the catch block stops
\* the stream of this run.
VideoFails(s) ==
  /\ s \in cam.starts
  /\ s.granted
  /\ cam' = IF s.orphan
              THEN [cam EXCEPT !.starts = @ \ {s}, !.live = @ \ {s.run}]
              ELSE [cam EXCEPT !.starts = @ \ {s},
                               !.live = @ \ {s.run},
                               !.isCameraLoading = FALSE,
                               !.toast = "Camera unavailable"]
  /\ UNCHANGED exceptCam

\* The save button of the naming dialog: finalizeMealSave up to the await
\* inside saveMealRecord.
TapSave ==
  /\ cam.mounted
  /\ cam.isNamingDialogOpen
  /\ ~cam.isSavingMeal
  /\ cam' = IF cam.pendingMeal = <<>>
              THEN [cam EXCEPT !.isNamingDialogOpen = FALSE]
              ELSE [cam EXCEPT !.isSavingMeal = TRUE,
                               !.saving = @ \cup
                                 {[meal |-> cam.pendingMeal[1],
                                   orphan |-> FALSE]}]
  /\ UNCHANGED <<gw, cl, cls, be, page, nb, meals>>

\* finalizeMealSave after saveMealRecord returned.  saveMealRecord catches
\* whatever blobToDataUrl or MealsStore.add throws, so it always returns
\* normally and the catch block here never runs.
SaveReported(c) ==
  [c EXCEPT !.toast = "Meal saved", !.pendingMeal = <<>>,
            !.isNamingDialogOpen = FALSE, !.isSavingMeal = FALSE]

\* saveMealRecord settles: blobToDataUrl resolves and MealsStore.add runs
\* (failure "none"), blobToDataUrl rejects ("render"), or setItem throws
\* ("quota").
SaveSettles(s, failure) ==
  /\ s \in cam.saving
  /\ meals.adds < MaxAdds
  /\ LET done == [cam EXCEPT !.saving = @ \ {s}]
     IN  /\ cam' = IF s.orphan THEN done ELSE SaveReported(done)
         /\ meals' = IF failure = "render" THEN meals
                     ELSE StoreAdd(meals,
                                   [idArg |-> "absent", title |-> "Lunch",
                                    source |-> s.meal.source],
                                   failure = "quota")
  /\ UNCHANGED <<gw, cl, cls, be, page, nb>>

\* cancelMealSave
CancelSave ==
  /\ cam.mounted
  /\ cam.isNamingDialogOpen
  /\ cam' = [cam EXCEPT !.isNamingDialogOpen = FALSE, !.pendingMeal = <<>>]
  /\ UNCHANGED exceptCam

\* The listeners of one run of the bridge's native effect; the handle of a
\* listener is known once its addListener promise has resolved.
EffectListeners(run) ==
  {[event |-> e, effect |-> run, handle |-> FALSE] :
     e \in {"localNotificationReceived", "localNotificationActionPerformed"}}

\* The application starts on a device or in a browser and mounts the bridge.
AppStarts(native) ==
  /\ nb.platform = "none"
  /\ nb' = [nb EXCEPT !.platform = IF native THEN "native" ELSE "web",
                      !.mounted = TRUE,
                      !.effect = 1,
                      !.listeners = IF native THEN EffectListeners(1) ELSE {}]
  /\ UNCHANGED exceptNb

\* An addListener promise resolves: then(handle => ...) stores the handle.
HandleResolves(l) ==
  /\ l \in nb.listeners
  /\ ~l.handle
  /\ nb' = [nb EXCEPT !.listeners = (@ \ {l}) \cup {[l EXCEPT !.handle = TRUE]}]
  /\ UNCHANGED exceptNb

\* The cleanup of the native effect: receivedHandle?.remove() and
\* actionHandle?.remove() reach only the handles already stored.
CleanedUp(listeners, run) ==
  {l \in listeners : ~(l.effect = run /\ l.handle)}

\* The bridge unmounts.
BridgeUnmounts ==
  /\ nb.mounted
  /\ nb' = [nb EXCEPT !.mounted = FALSE,
                      !.listeners = CleanedUp(@, nb.effect)]
  /\ UNCHANGED exceptNb

\* The bridge mounts again.
BridgeMounts ==
  /\ nb.platform # "none"
  /\ ~nb.mounted
  /\ nb.effect < MaxMounts
  /\ nb' = [nb EXCEPT !.mounted = TRUE,
                      !.effect = @ + 1,
                      !.listeners = IF nb.platform = "native"
                                      THEN @ \cup EffectListeners(nb.effect + 1)
                                      ELSE @]
  /\ UNCHANGED exceptNb

\* The plugin or the window delivers an event about notification n: when a
\* listener takes it, it navigates with the token Date.now().  Two events
\* are more than a millisecond apart.
Delivered(taken, n, shot) ==
  IF taken
    THEN /\ cam.runs < MaxStarts
         /\ nb.lastNav < meals.now
         /\ cam' = AutoCapture(cam, meals.now, n, nb.platform = "native", shot)
    ELSE cam' = cam

\* A scheduled eating-gesture notification is shown while the application
\* is in the foreground: localNotificationReceived.
NotificationReceived(shot) ==
  /\ nb.platform = "native"
  /\ nb.notified < MaxNotifications
  /\ LET n == nb.notified + 1
         taken == \E l \in nb.listeners : l.event = "localNotificationReceived"
     IN  /\ Delivered(taken, n, shot)
         /\ nb' = [nb EXCEPT !.notified = n, !.shown = @ \cup {n},
                             !.navs[n] = IF taken THEN @ + 1 ELSE @,
                             !.lastNav = IF taken THEN meals.now ELSE @]
  /\ UNCHANGED <<gw, cl, cls, be, page, meals>>

\* The user taps a notification that is shown:
\* localNotificationActionPerformed.
NotificationTapped(n, shot) ==
  /\ n \in nb.shown
  /\ LET taken == \E l \in nb.listeners :
                     l.event = "localNotificationActionPerformed"
     IN  /\ Delivered(taken, n, shot)
         /\ nb' = [nb EXCEPT !.shown = @ \ {n},
                             !.navs[n] = IF taken THEN @ + 1 ELSE @,
                             !.lastNav = IF taken THEN meals.now ELSE @]
  /\ UNCHANGED <<gw, cl, cls, be, page, meals>>

\* In a browser the test notification dispatches the "meal-reminder" event.
MealReminder(shot) ==
  /\ nb.platform = "web"
  /\ cam.mounted
  /\ nb.notified < MaxNotifications
  /\ LET n == nb.notified + 1
     IN  /\ Delivered(nb.mounted, n, shot)
         /\ nb' = [nb EXCEPT !.notified = n,
                             !.navs[n] = IF nb.mounted THEN @ + 1 ELSE @,
                             !.lastNav = IF nb.mounted THEN meals.now ELSE @]
  /\ UNCHANGED <<gw, cl, cls, be, page, meals>>

(***************************************************************************)
(* SpecCamera: the Camera page and the store it saves to, on a device or   *)
(* in a browser, with the browser's reminder events.                       *)
(***************************************************************************)
Shots == {"photo", "none"}

NextCamera ==
  \/ \E native \in BOOLEAN : AppStarts(native)
  \/ OpenCamera
  \/ LeaveCamera
  \/ \E shot \in Shots : TapCapture(shot)
  \/ TapStop
  \/ \E s \in cam.starts : StreamGranted(s)
  \/ \E s \in cam.starts : StreamRefused(s)
  \/ \E s \in cam.starts : VideoReady(s)
  \/ \E s \in cam.starts : VideoFails(s)
  \/ TapSave
  \/ \E s \in cam.saving, failure \in {"none", "render", "quota"} :
        SaveSettles(s, failure)
  \/ CancelSave
  \/ \E shot \in Shots : MealReminder(shot)
  \/ DateNowAdvances

SpecCamera == InitSearch /\ [][NextCamera]_vars

(***************************************************************************)
(* SpecBridge: the notification bridge on a device or in a browser, and    *)
(* the captures its navigations start.                                     *)
(***************************************************************************)
NextBridge ==
  \/ \E native \in BOOLEAN : AppStarts(native)
  \/ \E l \in nb.listeners : HandleResolves(l)
  \/ BridgeUnmounts
  \/ BridgeMounts
  \/ \E shot \in Shots : NotificationReceived(shot)
  \/ \E n \in nb.shown, shot \in Shots : NotificationTapped(n, shot)
  \/ LeaveCamera
  \/ CancelSave
  \/ DateNowAdvances

SpecBridge == InitSearch /\ [][NextBridge]_vars

(***************************************************************************)
(* Properties of the search paths (under SpecSearch) and of the            *)
(* classifier (under SpecClassify).                                         *)
(***************************************************************************)
OutOfRange(lat, lon) == lat < -90 \/ lat > 90 \/ lon < -180 \/ lon > 180

GwSearchDone(s) == gw[s].req.route = "search" /\ gw[s].pc = "done"

GwSearchSucceeded(s) == GwSearchDone(s) /\ gw[s].resp[1].body.success

ClientSearchSucceeded == cl.pc = "done" /\ cl.result[1].success

\* C3: a search whose latitude is outside [-90,90] or whose longitude is
\* outside [-180,180] yields success:false and issues no call to the places
\* provider, on the gateway endpoint and in the client's searchRestaurants.
C3_OutOfRangeRejectedWithoutCall ==
  /\ \A s \in GwSlots :
       (/\ gw[s].req.route = "search"
        /\ gw[s].req.body.latitude # <<>>
        /\ gw[s].req.body.longitude # <<>>
        /\ OutOfRange(gw[s].req.body.latitude[1], gw[s].req.body.longitude[1]))
       => /\ gw[s].calls = <<>>
          /\ gw[s].pc = "done" => ~gw[s].resp[1].body.success
  /\ (cl.pc # "idle" /\ OutOfRange(cl.args.latitude, cl.args.longitude))
       => /\ cl.calls = <<>>
          /\ cl.pc = "done" => ~cl.result[1].success

NonDecreasingDistance(restaurants) ==
  \A i \in 1..(Len(restaurants) - 1) :
     restaurants[i].distance_meters <= restaurants[i + 1].distance_meters

\* C4: the restaurants list of every successful search, on either path and
\* for every provider payload (features without a distance included), is
\* sorted by non-decreasing distance_meters.
C4_ResultsSortedByDistance ==
  /\ \A s \in GwSlots :
       GwSearchSucceeded(s)
         => NonDecreasingDistance(gw[s].resp[1].body.restaurants)
  /\ ClientSearchSucceeded => NonDecreasingDistance(cl.result[1].restaurants)

\* The provider sent 500 m, then a feature without distance, then 150 m, and
\* the gateway answered with the three restaurants.
C4_Witness ==
  /\ GwSearchSucceeded(1)
  /\ Len(gw[1].outcome[1].features) = 3
  /\ gw[1].outcome[1].features[1].distance = <<500>>
  /\ gw[1].outcome[1].features[2].distance = <<>>
  /\ gw[1].outcome[1].features[3].distance = <<150>>
  /\ gw[1].resp[1].body.total_results = 3

\* C5: for every category list and name, classification returns a
\* non-empty cuisine label list and a health score in [0,100].
C5_ClassifyTotal ==
  cls.pc = "done" => /\ Len(cls.cuisines) > 0
                     /\ cls.score >= 0
                     /\ cls.score <= 100

\* An input no keyword matches: the label falls back to "general".
C5_Witness ==
  /\ cls.pc = "done"
  /\ cls.categories # <<>>
  /\ cls.cuisines = <<"general">>
  /\ cls.score = 50

\* C6 as stated: whatever the provider returns, a successful search holds
\* at most 50 restaurants.
C6_AtMostCapEntries ==
  /\ \A s \in GwSlots :
       GwSearchSucceeded(s)
         => Len(gw[s].resp[1].body.restaurants) <= PROVIDER_CAP
  /\ ClientSearchSucceeded => Len(cl.result[1].restaurants) <= PROVIDER_CAP

ClampedFrom(sent, requested) ==
  /\ sent <= PROVIDER_CAP
  /\ sent <= requested
  /\ sent = requested \/ sent = PROVIDER_CAP

\* C6 amended: the limit sent to the provider is the requested limit
\* clamped to 50; the result holds one restaurant per feature returned, so
\* at most 50 whenever the provider returns no more than the limit it got.
C6_ClampedLimitSent ==
  /\ \A s \in GwSlots :
       (gw[s].req.route = "search" /\ gw[s].calls # <<>>)
         => /\ ClampedFrom(gw[s].calls[1].limit,
                           SearchBodyDefaults(gw[s].req.body).limit)
            /\ GwSearchSucceeded(s)
                 => /\ Len(gw[s].resp[1].body.restaurants)
                         = Len(gw[s].outcome[1].features)
                    /\ Len(gw[s].outcome[1].features) <= gw[s].calls[1].limit
                         => Len(gw[s].resp[1].body.restaurants) <= PROVIDER_CAP
  /\ cl.calls # <<>>
       => /\ ClampedFrom(cl.calls[1].limit, cl.args.limit)
          /\ ClientSearchSucceeded
               => /\ Len(cl.result[1].restaurants)
                       = Len(cl.outcome[1].features)
                  /\ Len(cl.outcome[1].features) <= cl.calls[1].limit
                       => Len(cl.result[1].restaurants) <= PROVIDER_CAP

\* limit=1000 was requested, 50 was sent, and the provider filled the page.
C6_Witness ==
  /\ GwSearchSucceeded(1)
  /\ gw[1].req.body.limit = <<1000>>
  /\ gw[1].calls[1].limit = 50
  /\ Len(gw[1].outcome[1].features) = 50
  /\ Len(gw[1].resp[1].body.restaurants) = 50

(***************************************************************************)
(* Properties of the enrichment path (under SpecEnrich).                   *)
(***************************************************************************)
\* C1: concurrent lookups of one previously-uncached name trigger exactly
\* one scrape: no two scrapes for the same normalized name are ever in
\* flight together, and while no scrape has failed and no record can have
\* expired the scraper has been invoked at most once per name.
C1_AtMostOneScrapeInFlight ==
  /\ \A a \in be.scrapes : \A b \in be.scrapes : a.key = b.key => a = b
  /\ \A key \in DOMAIN be.started :
       (be.failures = 0 /\ be.clock <= RETENTION_DAYS)
         => be.started[key] = 1

\* Two connections that spelled the name differently wait on one scrape.
C1_Witness ==
  \E sc \in be.scrapes :
     /\ be.started[sc.key] = 1
     /\ \E s \in sc.waiters : \E t \in sc.waiters :
           gw[s].req.segment # gw[t].req.segment

\* The connection's forwarded call has been taken up by the backend in
\* this step.
TakenUp(s) ==
  /\ Forwarded(s)
  /\ \/ gw'[s].pc = "done"
     \/ \E sc \in be'.scrapes : s \in sc.waiters

\* C2: once a lookup has succeeded from an empty cache, its record is
\* stored, and a lookup of the same name that reaches the backend while
\* the record is at most 7 days old is answered with the stored record and
\* no scraper invocation.
C2_FreshRecordServedWithoutScrape ==
  [][\A s \in GwSlots :
       LET key == Normalize(ForwardedName(s)) IN
       /\ (/\ gw[s].pc = "awaiting"
           /\ gw'[s].pc = "done"
           /\ ~gw'[s].outcome[1].data[1].cache_hit
           /\ gw'[s].outcome[1].data[1].data[1].matched)
            => /\ key \in DOMAIN be'.cache
               /\ be'.cache[key] = gw'[s].resp[1].body.data
       /\ (/\ TakenUp(s)
           /\ key \in DOMAIN be.cache
           /\ be.clock - be.cache[key].scraped_at <= RETENTION_DAYS)
            => /\ gw'[s].pc = "done"
               /\ gw'[s].resp[1].status = 200
               /\ gw'[s].resp[1].body.data = be.cache[key]
               /\ be'.started = be.started
               /\ be'.scrapes = be.scrapes]_vars

\* A lookup answered from the cache on the last day of the window, after a
\* single scraper invocation.
C2_Witness ==
  \E s \in GwSlots :
     /\ gw[s].pc = "done"
     /\ gw[s].outcome # <<>>
     /\ gw[s].outcome[1].data[1].cache_hit
     /\ be.clock - gw[s].resp[1].body.data.scraped_at = RETENTION_DAYS
     /\ be.started[Normalize(KFC)] = 1

(***************************************************************************)
(* Properties of the gateway's responses (under SpecGateway).              *)
(***************************************************************************)
GuardedRoutes == {"search", "geocode", "openrice_search", "openrice_batch"}

ErrorEnvelope(body) == "success" \in DOMAIN body /\ body.success = FALSE

\* C7: every exception raised while a search, reverse-geocode, single
\* enrichment or batch enrichment request is handled (malformed bodies and
\* failing upstream calls included) is answered with HTTP 500 and a
\* {success:false, ...} envelope.
C7_ExceptionsAnsweredWith500Envelope ==
  \A s \in GwSlots :
     (/\ gw[s].pc = "done"
      /\ gw[s].req.route \in GuardedRoutes
      /\ gw[s].thrown # <<>>)
       => /\ gw[s].resp[1].status = 500
          /\ ErrorEnvelope(gw[s].resp[1].body)

UniformEnvelope(body) ==
  /\ "success" \in DOMAIN body
  /\ body.success \in BOOLEAN
  /\ body.success = FALSE
       => ("error" \in DOMAIN body \/ "error_message" \in DOMAIN body)

\* C8: every response the gateway sends, on every route and for every
\* outcome, carries a boolean success field and, when success is false, an
\* error message field.
C8_EveryResponseUsesEnvelope ==
  \A s \in GwSlots :
     gw[s].pc = "done" => UniformEnvelope(gw[s].resp[1].body)

\* C9: two requests on one route that fail with HTTP 500 after different
\* internal exceptions receive the same body.
C9_ErrorBodyIndependentOfException ==
  \A s \in GwSlots : \A t \in GwSlots :
     (/\ gw[s].pc = "done" /\ gw[t].pc = "done"
      /\ gw[s].req.route = gw[t].req.route
      /\ gw[s].resp[1].status = 500 /\ gw[t].resp[1].status = 500
      /\ gw[s].thrown # <<>> /\ gw[t].thrown # <<>>
      /\ gw[s].thrown # gw[t].thrown)
       => gw[s].resp[1].body = gw[t].resp[1].body

\* C10: every outbound call carries an explicit timeout, so no request is
\* left waiting on an upstream that never answers.
C10_OutboundCallsCarryTimeout ==
  \A s \in GwSlots :
     \A i \in 1..Len(gw[s].calls) : gw[s].calls[i].timeout # NoTimeout

(***************************************************************************)
(* Properties of the batch enrichment path (under SpecBatch).              *)
(***************************************************************************)
BatchAnswered(s) ==
  /\ gw[s].pc = "done"
  /\ gw[s].req.route = "openrice_batch"
  /\ gw[s].outcome # <<>>

\* C11: a batch answer holds one result per input name, in input order
\* (result i is the record of name i's normalized key), each either a
\* matched record or an unmatched one: a lookup that fails leaves the
\* other results in place.
C11_BatchOneResultPerName ==
  \A s \in GwSlots :
     BatchAnswered(s)
       => LET names == gw[s].req.restaurants[1]
              body == gw[s].resp[1].body
          IN  /\ gw[s].resp[1].status = 200
              /\ Len(body.data) = Len(names)
              /\ \A i \in 1..Len(names) :
                    /\ Normalize(body.data[i].query) = Normalize(names[i])
                    /\ body.data[i].matched
                         \/ body.data[i] = UnmatchedRecord(names[i])

\* [KFC, Wok] where the scrape of Wok fails: KFC matched, Wok unmatched.
C11_Witness ==
  \E s \in GwSlots :
     /\ BatchAnswered(s)
     /\ gw[s].req.restaurants[1] = <<KFC, Wok>>
     /\ Len(gw[s].resp[1].body.data) = 2
     /\ gw[s].resp[1].body.data[1].matched
     /\ ~gw[s].resp[1].body.data[2].matched

(***************************************************************************)
(* Single lookup whose forwarded scrape failed.                            *)
(***************************************************************************)
\* The lookup in slot s was forwarded and the backend call failed: it was
\* unreachable, answered a non-success status, or carried no data.
LookupScrapeFailed(s) ==
  /\ gw[s].req.route = "openrice_search"
  /\ gw[s].pc = "done"
  /\ gw[s].outcome # <<>>
  /\ fetchFromFastAPI(gw[s].outcome[1]) = <<>>

\* C12: a lookup whose scrape failed is answered 200 with an unmatched
\* record (matched = FALSE), never with a failure of the gateway request.
C12_FailedScrapeAnsweredUnmatched ==
  \A s \in GwSlots :
     LookupScrapeFailed(s)
       => /\ gw[s].resp[1].status = 200
          /\ gw[s].resp[1].body.success
          /\ ~gw[s].resp[1].body.data.matched

(***************************************************************************)
(* Failed lookups and the cache (under SpecEnrich).                        *)
(***************************************************************************)
\* The cache holds a matched record for key that is still in its window.
FreshMatch(key) ==
  LET hit == CacheGet(be.cache, key, be.clock)
  IN  hit # <<>> /\ hit[1].matched

\* C13: a lookup answered with an unmatched record leaves the cache as it
\* was, and a lookup taken up after a failure, with no matched record in its
\* window, is not answered from a stored failure: it waits on a scrape.
C13_FailedLookupNotCached ==
  [][\A s \in GwSlots :
       /\ (/\ gw[s].pc = "awaiting"
           /\ gw'[s].pc = "done"
           /\ ~gw'[s].resp[1].body.data.matched)
            => be'.cache = be.cache
       /\ (/\ TakenUp(s)
           /\ be.failures > 0
           /\ ~FreshMatch(Normalize(ForwardedName(s))))
            => /\ gw'[s].pc = "awaiting"
               /\ \E sc \in be'.scrapes :
                     /\ s \in sc.waiters
                     /\ sc.key = Normalize(ForwardedName(s))]_vars

\* After a failed scrape and no success, the same name is being scraped a
\* second time.
C13_Witness ==
  /\ be.failures = 1
  /\ be.cache = <<>>
  /\ Invocations(be.started, Normalize(KFC)) = 2
  /\ \E sc \in be.scrapes : sc.key = Normalize(KFC) /\ sc.waiters # {}

(***************************************************************************)
(* Enrichment validation (under SpecGateway).                              *)
(***************************************************************************)
\* The name a lookup request carries is empty or only whitespace.
BlankName(req) ==
  \/ req.segment = <<>>
  \/ /\ decodeURIComponent(req.segment) # <<>>
     /\ decodeURIComponent(decodeURIComponent(req.segment)[1]) # <<>>
     /\ trim(decodeURIComponent(decodeURIComponent(req.segment)[1])[1]) = <<>>

\* The request is an enrichment request with well-formed JSON whose input
\* fails validation.
InvalidEnrichmentInput(req) ==
  /\ req.route \in {"openrice_search", "openrice_batch"}
  /\ req.json_ok
  /\ \/ req.route = "openrice_search" /\ BlankName(req)
     \/ /\ req.route = "openrice_batch"
        /\ (req.restaurants = <<>> \/ req.restaurants[1] = <<>>)

\* C14: a lookup with an empty or whitespace-only name, and a batch whose
\* restaurants field is not a non-empty array, are rejected with status 400
\* and a descriptive error message, and no request is sent to the backend.
C14_InvalidEnrichmentInputRejected400 ==
  \A s \in GwSlots :
     InvalidEnrichmentInput(gw[s].req)
       => /\ gw[s].calls = <<>>
          /\ gw[s].pc = "done"
          /\ gw[s].resp[1].status = 400
          /\ ~gw[s].resp[1].body.success
          /\ gw[s].resp[1].body.error # ""

(***************************************************************************)
(* The category token of a search (under SpecSearch).                      *)
(***************************************************************************)
TableTokens == {CUISINE_CATEGORIES[k] : k \in DOMAIN CUISINE_CATEGORIES}

\* The token the table assigns to a filter: its entry, or the generic one.
TableToken(filter) ==
  IF filter \in DOMAIN CUISINE_CATEGORIES THEN CUISINE_CATEGORIES[filter]
  ELSE "catering.restaurant"

\* C15: the category token of every search sent to the provider is the
\* table's entry for the cuisine filter ("chinese" gives
\* "catering.restaurant.chinese"), or "catering.restaurant" when the filter
\* is not a key of the table; no other token is ever sent.
C15_CategoryTokenFromTable ==
  /\ \A i \in 1..Len(gw[1].calls) :
        gw[1].req.route = "search"
          => /\ gw[1].calls[i].categories \in TableTokens
             /\ gw[1].calls[i].categories =
                  TableToken(toLowerCase(
                    SearchBodyDefaults(gw[1].req.body).cuisine_filter))
  /\ \A i \in 1..Len(cl.calls) :
        /\ cl.calls[i].categories \in TableTokens
        /\ cl.calls[i].categories = TableToken(cl.args.cuisine_filter)

(***************************************************************************)
(* Identifiers within one search response (under SpecSearch).              *)
(***************************************************************************)
Distinct(list) ==
  \A i, j \in 1..Len(list) : i # j => list[i] # list[j]

UniqueIds(restaurants) ==
  \A i, j \in 1..Len(restaurants) :
     i # j => restaurants[i].id # restaurants[j].id

\* C16: in every successful search response built from distinct provider
\* features, no two restaurant records carry the same id, whether the id is
\* the place_id, the osm_id or the one synthesized from the coordinates.
C16_IdsUniqueWithinResponse ==
  /\ (GwSearchSucceeded(1) /\ Distinct(gw[1].outcome[1].features))
       => UniqueIds(gw[1].resp[1].body.restaurants)
  /\ (ClientSearchSucceeded /\ Distinct(cl.outcome[1].features))
       => UniqueIds(cl.result[1].restaurants)

(***************************************************************************)
(* Outbound calls of a search (under SpecSearch).                          *)
(***************************************************************************)
\* The request body passes the handler's validation.
Validated(body) ==
  /\ body.latitude # <<>>
  /\ body.longitude # <<>>
  /\ ~OutOfRange(body.latitude[1], body.longitude[1])
  /\ body.filter_is_string

OneGet(calls) ==
  /\ Len(calls) = 1
  /\ calls[1].method = "GET"
  /\ calls[1].target = "geoapify:/v2/places"

C18_ClientSearchAlwaysReturnsResult ==
  cl.pc = "done"
    => /\ Len(cl.result) = 1
       /\ {"success", "restaurants", "total_results"} \subseteq DOMAIN cl.result[1]
       /\ cl.result[1].success \in BOOLEAN
       /\ ~cl.result[1].success
            => /\ cl.result[1].restaurants = <<>>
               /\ cl.result[1].total_results = 0

\* The fetch was rejected and the search has returned.
C18_Witness ==
  /\ cl.pc = "done"
  /\ cl.outcome[1].kind = "network"
  /\ ~cl.result[1].success
  /\ cl.result[1].total_results = 0

(***************************************************************************)
(* Images delivered to the client (under SpecImages).                      *)
(***************************************************************************)
\* C19: every successful result fetchOpenRiceImages returns carries at
\* most 3 image URLs, whatever the backend returned.
C19_AtMostThreeImagesDelivered ==
  (cl.pc = "done" /\ cl.args.route = "images" /\ cl.result[1].success)
    => Len(cl.result[1].images) <= IMAGE_CAP

(***************************************************************************)
(* The labels detectCuisines returns (under SpecClassify).                 *)
(***************************************************************************)
\* The labels one of whose keywords occurs in the text.
MatchingLabels(text) ==
  {c \in DOMAIN CUISINE_KEYWORDS :
     \E k \in 1..Len(CUISINE_KEYWORDS[c]) :
        includes(text, CUISINE_KEYWORDS[c][k])}

\* C20: detectCuisines returns a keyword label exactly when one of the
\* label's keywords is a substring of the lower-cased text joined from the
\* categories and the name; it returns exactly <<"general">> exactly when no
\* keyword matches, and "general" never stands beside another label.
C20_LabelsExactlyTheMatches ==
  cls.pc = "done"
    => LET text == toLowerCase(join(Append(cls.categories, cls.name)))
           labels == {cls.cuisines[i] : i \in 1..Len(cls.cuisines)}
       IN  /\ \A c \in DOMAIN CUISINE_KEYWORDS :
                 c \in labels <=> c \in MatchingLabels(text)
           /\ cls.cuisines = <<"general">> <=> MatchingLabels(text) = {}
           /\ "general" \in labels => Len(cls.cuisines) = 1

\* An input classified with two labels, one of them through a keyword that
\* is not the label's own name.
C20_Witness ==
  /\ cls.pc = "done"
  /\ Len(cls.cuisines) >= 2
  /\ \E i \in 1..Len(cls.cuisines) :
        ~includes(toLowerCase(join(Append(cls.categories, cls.name))),
                  CUISINE_KEYWORDS[cls.cuisines[i]][1])

(***************************************************************************)
(* The health score (under SpecScore).                                     *)
(***************************************************************************)
\* The candidate pool: the table score of every cuisine the table holds,
\* and 80 when the lower-cased category text contains a healthy signal.
CandidatePool(cuisines, categories) ==
       {CUISINE_HEALTH_SCORES[cuisines[i]] :
          i \in {j \in 1..Len(cuisines) :
                   cuisines[j] \in DOMAIN CUISINE_HEALTH_SCORES}}
  \cup (IF \E w \in HEALTHY_SIGNALS :
              includes(toLowerCase(join(categories)), w)
          THEN {HEALTHY_SIGNAL_SCORE} ELSE {})

\* C21: calculateHealthScore returns the greatest member of the candidate
\* pool, and 50 when the pool is empty.
C21_ScoreIsMaxOfPool ==
  cls.pc = "scored"
    => LET pool == CandidatePool(cls.cuisines, cls.categories)
       IN  IF pool = {} THEN cls.score = DEFAULT_HEALTH_SCORE
           ELSE /\ cls.score \in pool
                /\ \A p \in pool : p <= cls.score

\* A low table score first, then a higher one, and a healthy signal in
\* capitals that beats both.
C21_Witness ==
  /\ cls.pc = "scored"
  /\ cls.cuisines = <<"fast_food", "japanese">>
  /\ cls.categories = << <<"O", "r", "g", "a", "n", "i", "c">> >>
  /\ cls.score = HEALTHY_SIGNAL_SCORE

(***************************************************************************)
(* The two search paths compared on one request (under SpecSearch).        *)
(***************************************************************************)
\* The arguments searchRestaurants takes for the request the body states.
ClientArgsOf(body) ==
  ClientArgs(body.latitude[1], body.longitude[1],
             SearchBodyDefaults(body).radius, SearchBodyDefaults(body).limit,
             SearchBodyDefaults(body).cuisine_filter)

\* The provider answers the client's path can meet for the request the
\* gateway has answered: the answer the gateway met, or any answer when the
\* gateway issued no call.
TwinOutcomes ==
  IF gw[1].outcome # <<>> THEN {gw[1].outcome[1]}
  ELSE ProviderOutcomes(
         ClientSearchStart(ClientArgsOf(gw[1].req.body)).calls[1])

\* C22: for every search request that states its coordinates and provider
\* response, the gateway's handler and the client's searchRestaurants
\* return the same success flag and the same restaurants list.
C22_SearchPathsAgree ==
  (/\ GwSearchDone(1)
   /\ gw[1].req.body.latitude # <<>>
   /\ gw[1].req.body.longitude # <<>>
   /\ gw[1].req.body.filter_is_string)
    => \A o \in TwinOutcomes :
          LET mine == gw[1].resp[1].body
              theirs == ClientSearchFinish(ClientArgsOf(gw[1].req.body), o)
          IN  /\ theirs.success = mine.success
              /\ mine.success => theirs.restaurants = mine.restaurants

\* The lookup started for the restaurant now selected.
CurrentLookups == {l \in page.lookups : l.selection = page.selections}

\* C23: on the Restaurants page the OpenRice images shown were delivered by
\* the lookup of the restaurant now selected, and while that lookup is in
\* flight the loading flag stays set: a lookup started for an earlier
\* selection changes neither.
C23_ImagesBelongToSelection ==
  page.selectedRestaurant # <<>> =>
     /\ page.openriceImages # <<>> => page.openriceFor = page.selections
     /\ CurrentLookups # {} => page.loadingOpenRice

\* The search most recently issued by the page.
LatestSearches == {s \in page.searches : s.id = page.issued}

\* C24: the search issued when a cuisine filter or a radius is picked asks
\* for the value just picked, so the latest search in flight always carries
\* the filter and the radius the page displays.
C24_SearchUsesPickedValue ==
  \A s \in LatestSearches :
     /\ s.args.cuisine_filter = page.cuisineFilter
     /\ s.args.radius = page.searchRadius

\* The i-th meal returned is the i-th most recent meal added: the caller's
\* fields, with the caller's id when one was given and a generated id
\* otherwise.
ReturnsAdded(got, meal) ==
  /\ got.title = meal.title
  /\ got.source = meal.source
  /\ got.id # <<>>
  /\ IF meal.idArg = "given" THEN got.id = <<<<"caller", 1>>>>
     ELSE got.id[1][1] \in {"uuid", "now"}

\* C29: after any sequence of add and clear, getAll() returns exactly the
\* meals added since the last clear, newest first, each with a defined id:
\* the caller's when one was given, a generated one otherwise.
C29_GetAllReturnsAddedNewestFirst ==
  /\ Len(getAll) = Len(meals.added)
  /\ \A i \in 1..Len(getAll) : ReturnsAdded(getAll[i], meals.added[i])

\* Two meals with different titles were added after a clear, the newer one
\* without an id.
C29_Witness ==
  /\ meals.lastOp = "add"
  /\ meals.adds = 2
  /\ Len(meals.added) = 2
  /\ meals.added[1].idArg = "absent"
  /\ meals.added[1].title = "Tea"
  /\ meals.added[2].title = "Lunch"
  /\ getAll[1].title = "Tea"

SaveSettled ==
  \E s \in cam.saving : ~s.orphan /\ cam'.saving = cam.saving \ {s}

\* C25: finalizeMealSave reports "Meal saved", clears the pending meal and
\* closes the dialog only if the meal was added to MealsStore; when the
\* preview cannot be rendered or the storage refuses it, the pending meal
\* and the dialog are kept and "Save failed" is reported.
C25_SavedOnlyWhenStored ==
  [][SaveSettled =>
       IF meals'.added # meals.added
         THEN /\ cam'.toast = "Meal saved"
              /\ cam'.pendingMeal = <<>>
              /\ ~cam'.isNamingDialogOpen
         ELSE /\ cam'.toast = "Save failed"
              /\ cam'.pendingMeal = cam.pendingMeal
              /\ cam'.isNamingDialogOpen = cam.isNamingDialogOpen]_vars

\* The streams a startCamera run still holds in its local variable.
BeingStarted == {s.run : s \in {t \in cam.starts : t.granted}}

\* C26: under every interleaving of startCamera, handleCapture, auto-capture,
\* stopCamera and unmount, an acquired media stream is referenced by
\* streamRef or has its tracks stopped, and isCameraActive is true only
\* while streamRef holds a stream.
C26_StreamsReferencedOrStopped ==
  /\ \A id \in cam.live \ (BeingStarted \cup cam.gone) : cam.streamRef = <<id>>
  /\ cam.isCameraActive => cam.streamRef # <<>>

\* C27: once the NotificationBridge is unmounted none of the listeners it
\* registered is still registered, also when it unmounts before the
\* addListener promises resolve.
C27_NoListenerAfterUnmount ==
  (nb.platform # "none" /\ ~nb.mounted) => nb.listeners = {}

\* C28: each eating-gesture notification that leads to a navigation to
\* /camera makes handleCapture run exactly once.
C28_OneCapturePerNotification ==
  \A n \in 1..MaxNotifications : nb.navs[n] > 0 => cam.captures[n] = 1

====
